---- MODULE Spec2Model ----
(***************************************************************************)
(* Model of the causal-scenario QA generators of HVCR                      *)
(* (src/data/synthetic/scripts): the shared kinematic primitives and role  *)
(* identifier of BaseScenarioQAGenerator, the six scenario analyzers with  *)
(* their event extraction, the QA synthesizers and the causal-model        *)
(* encoders.                                                               *)
(*                                                                         *)
(* Numbers.  Velocities are integer vectors in units of 0.005, so that the *)
(* thresholds 0.01, 0.05 and 0.1 of the source are the integers 2, 10 and  *)
(* 20.  Locations are integer vectors in units of 0.1, so that 0.3 and 0.5 *)
(* are 3 and 5.  A comparison of a Euclidean norm with a threshold is made *)
(* on the squares, which is the same comparison for non-negative reals.    *)
(*                                                                         *)
(* Text.  Python strings are TLA+ strings and an f-string is the           *)
(* concatenation (\o) of its pieces, so that two texts are equal in the    *)
(* model exactly when they are equal in the program.                       *)
(*                                                                         *)
(* None is the integer -1 where the program holds an object id or None,    *)
(* the string "None" for the setting, and the empty string for a           *)
(* description variable left at None (a description is never empty).       *)
(***************************************************************************)
EXTENDS Integers, Sequences, FiniteSets, TLC

VARIABLES
    scenario_name,   \* BaseScenarioQAGenerator.scenario_name
    setting,         \* QAPairGenerator.setting, copied into the generator by set_setting
    data,            \* the simulation record: object_property, motion_trajectory, collision
    pc,              \* position in the call chain of generate_qa_pairs
    object_info,     \* result of _identify_objects_by_setting
    analysis,        \* result of analyze_scenario
    qa_pairs,        \* result of generate_qa_templates
    cr_templates,    \* result of generate_cr_templates
    towards_args,    \* arguments of one _is_moving_towards call
    towards_result,  \* its result
    setting_str,     \* the setting argument of QAPairGenerator.__init__
    questions_file,  \* the record written by _save_qa_pairs_to_json, if any
    documents,       \* the documents built by convert_videoac_to_hf_dataset
    doc,             \* the document handed to videoac_process_results
    result_data      \* result of videoac_process_results

\* the variables of the orchestrator's file output and of the evaluation
file_vars == <<setting_str, questions_file>>
eval_vars == <<documents, doc, result_data>>

vars == <<scenario_name, setting, data, pc, object_info, analysis, qa_pairs,
          cr_templates, towards_args, towards_result, file_vars, eval_vars>>

-----------------------------------------------------------------------------
(* Values shared by the whole model *)

None == -1

NoSetting == "None"
ADD_ONE_STATIC == "add_one_static"
ADD_TWO_STATIC == "add_two_static"
ADD_ONE_MOVING == "add_one_moving"
ADD_TWO_MOVING == "add_two_moving"

SettingType == {ADD_ONE_STATIC, ADD_TWO_STATIC, ADD_ONE_MOVING, ADD_TWO_MOVING}

Scenarios == {"overdetermination", "switch", "late", "early", "double", "bogus"}

\* Python truthiness of a setting (None is falsy, an Enum member truthy)
SettingIsSet(s) == s # NoSetting

\* Python truthiness of an object id or None (None and 0 are falsy)
Truthy(x) == x # None /\ x # 0

\* Python truthiness of a description variable (None and "" are falsy)
NoDesc == ""
DescIsSet(d) == d # NoDesc

-----------------------------------------------------------------------------
(* Sequence helpers: Python list operations *)

\* lst[a:b] with 0-based a, b (clipped to the list like a Python slice)
Slice(lst, a, b) ==
    LET hi == IF b < Len(lst) THEN b ELSE Len(lst)
    IN  IF a >= hi THEN <<>> ELSE [i \in 1..(hi - a) |-> lst[a + i]]

\* x in lst
InList(x, lst) == \E i \in 1..Len(lst) : lst[i] = x

\* the elements of a list as a set
Elems(lst) == {lst[i] : i \in 1..Len(lst)}

-----------------------------------------------------------------------------
(* Kinematic primitives, base_generator.py *)

Dot(u, v) == u[1] * v[1] + u[2] * v[2] + u[3] * v[3]

Sub(u, v) == <<u[1] - v[1], u[2] - v[2], u[3] - v[3]>>

\* square of _calculate_distance(pos1, pos2), in location units
DistanceSq(pos1, pos2) == Dot(Sub(pos1, pos2), Sub(pos1, pos2))

\* square of _calculate_velocity_magnitude(velocity), in velocity units
VelocityMagnitudeSq(velocity) == Dot(velocity, velocity)

\* 0.01 in velocity units: `velocity_mag < 0.01` is "considered stationary"
StationarySpeed == 2
\* 0.05 in velocity units: `velocity_mag < 0.05` is "basically stopped" (bogus)
StoppedSpeed == 10
\* 0.1 in velocity units: the threshold of _is_moving_towards and of
\* `velocity_mag > 0.1` in the start_moving checks
TowardsSpeed == 20

\* velocity_mag < 0.01
IsStationary(velocity) ==
    VelocityMagnitudeSq(velocity) < StationarySpeed * StationarySpeed

\* floor of the square root of n, searched between lo and hi (lo^2 <= n < hi^2)
RECURSIVE ISqrtBetween(_, _, _)
ISqrtBetween(n, lo, hi) ==
    IF hi - lo <= 1 THEN lo
    ELSE LET mid == (lo + hi) \div 2
         IN  IF mid * mid <= n THEN ISqrtBetween(n, mid, hi)
             ELSE ISqrtBetween(n, lo, mid)

\* (46340 is the largest integer whose square fits the 32-bit integers)
ISqrt(n) == ISqrtBetween(n, 0, IF n < 46340 THEN n + 1 ELSE 46341)

\* _is_moving_towards(obj1_pos, obj1_vel, obj2_pos, obj2_vel):
\*   direction_magnitude = |obj2_pos - obj1_pos|; False when it is 0;
\*   otherwise dot(obj1_vel, direction / direction_magnitude) > 0.1.
\* The division by the positive magnitude is carried to the other side, and
\* for the integer dot product d, d > 20 * sqrt(m) iff d > floor(sqrt(400 * m)).
TowardsUsesRelativeVelocity(obj1_pos, obj1_vel, obj2_pos, obj2_vel) ==
    LET direction_to_obj2 == Sub(obj2_pos, obj1_pos)
        magnitude_sq == Dot(direction_to_obj2, direction_to_obj2)
        dot_product == Dot(Sub(obj1_vel, obj2_vel), direction_to_obj2)
    IN  IF magnitude_sq = 0 THEN FALSE
        ELSE dot_product > ISqrt(TowardsSpeed * TowardsSpeed * magnitude_sq)

IsMovingTowards(obj1_pos, obj1_vel, obj2_pos, obj2_vel) ==
    LET direction_to_obj2 == Sub(obj2_pos, obj1_pos)
        magnitude_sq == Dot(direction_to_obj2, direction_to_obj2)
        dot_product == Dot(obj1_vel, direction_to_obj2)
    IN  IF magnitude_sq = 0 THEN FALSE
        ELSE dot_product > ISqrt(TowardsSpeed * TowardsSpeed * magnitude_sq)

-----------------------------------------------------------------------------
(* Role identifier, base_generator.py *)

\* the ids of the frame's objects with (stationary = TRUE) or without a
\* velocity magnitude below 0.01, in the frame's order
RECURSIVE PartitionFrame(_, _)
PartitionFrame(first_frame, stationary) ==
    IF first_frame = <<>> THEN <<>>
    ELSE LET obj == Head(first_frame)
             rest == PartitionFrame(Tail(first_frame), stationary)
         IN  IF IsStationary(obj.velocity) = stationary
             THEN <<obj.object_id>> \o rest
             ELSE rest

StaticObjects(first_frame) == PartitionFrame(first_frame, TRUE)

MovingObjects(first_frame) == PartitionFrame(first_frame, FALSE)

\* a variant of the slicing: the distractors of the other scenarios start one
\* place too far (static_objects[2] instead of static_objects[1])
IdentifyShiftedDistractor(trajectory, s, name) ==
    LET static_objects == StaticObjects(trajectory[1].objects)
        moving_objects == MovingObjects(trajectory[1].objects)
    IN  [static_objects |-> IF s = ADD_ONE_STATIC /\ Len(static_objects) >= 3
                            THEN Slice(static_objects, 0, 1) ELSE static_objects,
         moving_objects |-> moving_objects,
         added_static |-> IF s = ADD_ONE_STATIC /\ Len(static_objects) >= 3
                          THEN <<static_objects[3]>> ELSE <<>>,
         added_moving |-> <<>>]

\* _identify_objects_by_setting(trajectory, setting) of a generator whose
\* scenario_name is `name`
IdentifyObjectsBySetting(trajectory, s, name) ==
    LET first_frame == trajectory[1].objects
        static_objects == StaticObjects(first_frame)
        moving_objects == MovingObjects(first_frame)
        ns == Len(static_objects)
        nm == Len(moving_objects)
        result == [static_objects |-> static_objects,
                   moving_objects |-> moving_objects,
                   added_static |-> <<>>,
                   added_moving |-> <<>>]
    IN  IF s = ADD_ONE_STATIC THEN
            IF name \in {"bogus", "early"} THEN
                IF ns >= 3 /\ nm >= 2
                THEN [result EXCEPT !.added_static = <<static_objects[3]>>,
                                    !.static_objects = Slice(static_objects, 0, 2)]
                ELSE result
            ELSE
                IF ns >= 2 /\ nm >= 2
                THEN [result EXCEPT !.added_static = <<static_objects[2]>>,
                                    !.static_objects = <<static_objects[1]>>]
                ELSE result
        ELSE IF s = ADD_TWO_STATIC THEN
            IF name \in {"bogus", "early"} THEN
                IF ns >= 4 /\ nm >= 2
                THEN [result EXCEPT !.added_static = Slice(static_objects, 2, 4),
                                    !.static_objects = Slice(static_objects, 0, 2)]
                ELSE result
            ELSE
                IF ns >= 3 /\ nm >= 2
                THEN [result EXCEPT !.added_static = Slice(static_objects, 1, 3),
                                    !.static_objects = <<static_objects[1]>>]
                ELSE result
        ELSE IF s = ADD_ONE_MOVING THEN
            IF name = "double" THEN
                IF ns >= 1 /\ nm >= 4
                THEN [result EXCEPT !.added_moving = <<moving_objects[4]>>,
                                    !.moving_objects = Slice(moving_objects, 0, 3)]
                ELSE result
            ELSE
                IF ns >= 1 /\ nm >= 3
                THEN [result EXCEPT !.added_moving = <<moving_objects[3]>>,
                                    !.moving_objects = Slice(moving_objects, 0, 2)]
                ELSE result
        ELSE IF s = ADD_TWO_MOVING THEN
            IF name = "double" THEN
                IF ns >= 1 /\ nm >= 5
                THEN [result EXCEPT !.added_moving = Slice(moving_objects, 3, 5),
                                    !.moving_objects = Slice(moving_objects, 0, 3)]
                ELSE result
            ELSE
                IF ns >= 1 /\ nm >= 4
                THEN [result EXCEPT !.added_moving = Slice(moving_objects, 2, 4),
                                    !.moving_objects = Slice(moving_objects, 0, 2)]
                ELSE result
        ELSE result

-----------------------------------------------------------------------------
(* Frames, collisions and events shared by the six analyzers *)

\* `obj_id in frame_objects` for frame_objects = {obj['object_id']: obj ...}
InFrame(frame, obj_id) ==
    \E k \in 1..Len(frame.objects) : frame.objects[k].object_id = obj_id

\* frame_objects[obj_id]
FrameObject(frame, obj_id) ==
    frame.objects[CHOOSE k \in 1..Len(frame.objects) :
                      frame.objects[k].object_id = obj_id]

\* a variant of the sort that leaves the collisions in their input order
CollisionsAsListed(collisions) == collisions

\* sorted(collisions, key=lambda x: x['frame_id']): a stable sort
RECURSIVE InsertByFrame(_, _)
InsertByFrame(c, sorted) ==
    IF sorted = <<>> THEN <<c>>
    ELSE IF Head(sorted).frame_id <= c.frame_id
         THEN <<Head(sorted)>> \o InsertByFrame(c, Tail(sorted))
         ELSE <<c>> \o sorted

RECURSIVE SortedByFrame(_)
SortedByFrame(collisions) ==
    IF collisions = <<>> THEN <<>>
    ELSE InsertByFrame(collisions[Len(collisions)],
                       SortedByFrame(SubSeq(collisions, 1, Len(collisions) - 1)))

\* the ids of a set as a list.  list(set(ids)) of CPython iterates a set of
\* small non-negative ints in increasing order (hash(i) = i, no collisions
\* below the table size of 8)
RECURSIVE SetAsList(_)
SetAsList(ids) ==
    IF ids = {} THEN <<>>
    ELSE LET least == CHOOSE x \in ids : \A y \in ids : x <= y
         IN  <<least>> \o SetAsList(ids \ {least})

\* the first id of `ids` (a list) that is not `other`, or None:
\*   for obj_id in ids: if obj_id != other: role = obj_id; break
FirstOtherThan(ids, other) ==
    IF \E k \in 1..Len(ids) : ids[k] # other
    THEN ids[CHOOSE k \in 1..Len(ids) :
                 ids[k] # other /\ \A j \in 1..(k - 1) : ids[j] = other]
    ELSE None

\* the first id of `ids` that is in `pool`, or None
FirstIn(ids, pool) ==
    IF \E k \in 1..Len(ids) : InList(ids[k], pool)
    THEN ids[CHOOSE k \in 1..Len(ids) :
                 InList(ids[k], pool) /\ \A j \in 1..(k - 1) : ~InList(ids[j], pool)]
    ELSE None

\* the moving_towards event of frame i (0-based) for subject -> target, as a
\* list of zero or one events
TowardsEvent(trajectory, i, subject, target) ==
    LET frame == trajectory[i + 1]
    IN  IF subject # None /\ target # None
           /\ InFrame(frame, subject) /\ InFrame(frame, target)
           /\ IsMovingTowards(FrameObject(frame, subject).location,
                              FrameObject(frame, subject).velocity,
                              FrameObject(frame, target).location,
                              FrameObject(frame, target).velocity)
        THEN <<[type |-> "moving_towards", frame |-> i,
                subject |-> subject, target |-> target]>>
        ELSE <<>>

\* the start_moving event of frame i for role S: speed > 0.1 now, < 0.01 in
\* the frame before
StartMovingEvent(trajectory, i, S) ==
    IF S # None /\ InFrame(trajectory[i + 1], S)
       /\ VelocityMagnitudeSq(FrameObject(trajectory[i + 1], S).velocity)
              > TowardsSpeed * TowardsSpeed
       /\ i > 0
       /\ InFrame(trajectory[i], S)
       /\ IsStationary(FrameObject(trajectory[i], S).velocity)
    THEN <<[type |-> "start_moving", frame |-> i, subject |-> S]>>
    ELSE <<>>

\* "Add collision events": one event per input collision, in input order
CollisionEvents(collisions) ==
    [k \in 1..Len(collisions) |->
        [type |-> "collision", frame |-> collisions[k].frame_id,
         subjects |-> collisions[k].object_ids]]

-----------------------------------------------------------------------------
(* Overdetermination analyzer, overdetermination.py *)

\* _analyze_overdetermination_events: per frame M1 -> S, M2 -> S, S starts
\* moving; then the collision events
OverdeterminationEvents(d, M1, M2, S) ==
    LET trajectory == d.motion_trajectory
        events[n \in 0..Len(trajectory)] ==
            IF n = 0 THEN <<>>
            ELSE events[n - 1]
                 \o TowardsEvent(trajectory, n - 1, M1, S)
                 \o TowardsEvent(trajectory, n - 1, M2, S)
                 \o StartMovingEvent(trajectory, n - 1, S)
    IN  events[Len(trajectory)] \o CollisionEvents(d.collision)

\* OverdeterminationScenarioQAGenerator.analyze_scenario(data, setting)
OverdeterminationAnalyze(d, s) ==
    LET info == IdentifyObjectsBySetting(d.motion_trajectory, s, "overdetermination")
        S == IF Len(info.static_objects) >= 1 THEN info.static_objects[1] ELSE None
        M1_by_setting == IF Len(info.moving_objects) >= 2
                         THEN info.moving_objects[1] ELSE None
        M2_by_setting == IF Len(info.moving_objects) >= 2
                         THEN info.moving_objects[2] ELSE None
        \* all object ids of the collisions (collision_objects.extend)
        collision_ids ==
            UNION {Elems(d.collision[k].object_ids) : k \in 1..Len(d.collision)}
        \* set(collision_frames)
        collision_frames == {d.collision[k].frame_id : k \in 1..Len(d.collision)}
        collision_objects == SetAsList(collision_ids \ {S})
        rebound == Len(collision_objects) >= 2
        M1 == IF rebound THEN collision_objects[1] ELSE M1_by_setting
        M2 == IF rebound THEN collision_objects[2] ELSE M2_by_setting
        base == [M1 |-> M1_by_setting, M2 |-> M2_by_setting, S |-> S,
                 events |-> <<>>,
                 collision_info |-> d.collision,
                 simultaneous_collision |-> FALSE,
                 added_static |-> info.added_static,
                 added_moving |-> info.added_moving]
    IN  IF S = None THEN base
        ELSE [base EXCEPT
                !.M1 = M1,
                !.M2 = M2,
                !.simultaneous_collision =
                    rebound /\ Cardinality(collision_frames) <= 2,
                !.events = OverdeterminationEvents(d, M1, M2, S)]

-----------------------------------------------------------------------------
(* Switch analyzer, switch.py *)

\* a variant of the extractor that logs every speed increase of M1
SwitchEventsWithoutLatch(d, M1, M2, S) ==
    LET trajectory == d.motion_trajectory
        SpeedsUp(i) ==
            /\ M1 # None /\ InFrame(trajectory[i + 1], M1) /\ i > 0
            /\ InFrame(trajectory[i], M1)
            /\ 4 * VelocityMagnitudeSq(FrameObject(trajectory[i + 1], M1).velocity)
                   > 9 * VelocityMagnitudeSq(FrameObject(trajectory[i], M1).velocity)
        st[n \in 0..Len(trajectory)] ==
            IF n = 0 THEN [events |-> <<>>, m1_speed_increased |-> FALSE]
            ELSE LET i == n - 1
                     before == st[n - 1]
                     fires == SpeedsUp(i)
                 IN  [events |->
                          before.events
                          \o TowardsEvent(trajectory, i, M1, S)
                          \o TowardsEvent(trajectory, i, M2, M1)
                          \o (IF fires
                              THEN <<[type |-> "speed_increase", frame |-> i,
                                      subject |-> M1]>>
                              ELSE <<>>)
                          \o StartMovingEvent(trajectory, i, S),
                      m1_speed_increased |-> before.m1_speed_increased \/ fires]
    IN  st[Len(trajectory)].events \o CollisionEvents(d.collision)

\* _analyze_switch_events: per frame M1 -> S, M2 -> M1, the speed_increase
\* latch of M1 (current_speed > prev_speed * 1.5, once), S starts moving
SwitchEvents(d, M1, M2, S) ==
    LET trajectory == d.motion_trajectory
        SpeedsUp(i) ==
            /\ M1 # None /\ InFrame(trajectory[i + 1], M1) /\ i > 0
            /\ InFrame(trajectory[i], M1)
            /\ 4 * VelocityMagnitudeSq(FrameObject(trajectory[i + 1], M1).velocity)
                   > 9 * VelocityMagnitudeSq(FrameObject(trajectory[i], M1).velocity)
        st[n \in 0..Len(trajectory)] ==
            IF n = 0 THEN [events |-> <<>>, m1_speed_increased |-> FALSE]
            ELSE LET i == n - 1
                     before == st[n - 1]
                     fires == SpeedsUp(i) /\ ~before.m1_speed_increased
                 IN  [events |->
                          before.events
                          \o TowardsEvent(trajectory, i, M1, S)
                          \o TowardsEvent(trajectory, i, M2, M1)
                          \o (IF fires
                              THEN <<[type |-> "speed_increase", frame |-> i,
                                      subject |-> M1]>>
                              ELSE <<>>)
                          \o StartMovingEvent(trajectory, i, S),
                      m1_speed_increased |-> before.m1_speed_increased \/ fires]
    IN  st[Len(trajectory)].events \o CollisionEvents(d.collision)

\* SwitchScenarioQAGenerator.analyze_scenario(data, setting)
SwitchAnalyze(d, s) ==
    LET trajectory == d.motion_trajectory
        base == [M1 |-> None, M2 |-> None, S |-> None,
                 events |-> <<>>,
                 collision_info |-> d.collision,
                 collision_sequence |-> <<>>,
                 added_static |-> <<>>,
                 added_moving |-> <<>>]
    IN  IF SettingIsSet(s) THEN
            LET info == IdentifyObjectsBySetting(trajectory, s, "switch")
                S == IF Len(info.static_objects) >= 1
                     THEN info.static_objects[1] ELSE None
                M1 == IF Len(info.moving_objects) >= 2
                      THEN info.moving_objects[1] ELSE None
                M2 == IF Len(info.moving_objects) >= 2
                      THEN info.moving_objects[2] ELSE None
            IN  [base EXCEPT !.added_static = info.added_static,
                             !.added_moving = info.added_moving,
                             !.S = S, !.M1 = M1, !.M2 = M2,
                             !.events = SwitchEvents(d, M1, M2, S)]
        ELSE
            LET static_objects == StaticObjects(trajectory[1].objects)
                S == IF static_objects = <<>> THEN None ELSE static_objects[1]
                collision_sequence == SortedByFrame(d.collision)
                two == Len(collision_sequence) >= 2
                M1 == IF two
                      THEN FirstOtherThan(collision_sequence[2].object_ids, S)
                      ELSE None
                M2 == IF two
                      THEN FirstOtherThan(collision_sequence[1].object_ids, M1)
                      ELSE None
            IN  IF S = None THEN base
                ELSE [base EXCEPT !.S = S, !.M1 = M1, !.M2 = M2,
                                  !.collision_sequence = collision_sequence,
                                  !.events = SwitchEvents(d, M1, M2, S)]

-----------------------------------------------------------------------------
(* Late-preemption analyzer, late.py *)

\* _analyze_late_events: per frame M1 -> S, M2 -> S, S starts moving
LateEvents(d, M1, M2, S) ==
    LET trajectory == d.motion_trajectory
        events[n \in 0..Len(trajectory)] ==
            IF n = 0 THEN <<>>
            ELSE events[n - 1]
                 \o TowardsEvent(trajectory, n - 1, M1, S)
                 \o TowardsEvent(trajectory, n - 1, M2, S)
                 \o StartMovingEvent(trajectory, n - 1, S)
    IN  events[Len(trajectory)] \o CollisionEvents(d.collision)

\* "Find another moving object as M2": the first object of frame zero with
\* velocity_mag > 0.01 that is neither M1 nor S, or None
LateOtherMoving(first_frame, M1, S) ==
    LET Fits(k) == /\ VelocityMagnitudeSq(first_frame[k].velocity)
                          > StationarySpeed * StationarySpeed
                   /\ first_frame[k].object_id # M1
                   /\ first_frame[k].object_id # S
    IN  IF \E k \in 1..Len(first_frame) : Fits(k)
        THEN first_frame[CHOOSE k \in 1..Len(first_frame) :
                             Fits(k) /\ \A j \in 1..(k - 1) : ~Fits(j)].object_id
        ELSE None

\* LateScenarioQAGenerator.analyze_scenario(data, setting)
LateAnalyze(d, s) ==
    LET trajectory == d.motion_trajectory
        base == [M1 |-> None, M2 |-> None, S |-> None,
                 events |-> <<>>,
                 collision_info |-> d.collision,
                 added_static |-> <<>>,
                 added_moving |-> <<>>]
    IN  IF SettingIsSet(s) THEN
            LET info == IdentifyObjectsBySetting(trajectory, s, "late")
                S == IF Len(info.static_objects) >= 1
                     THEN info.static_objects[1] ELSE None
                M1 == IF Len(info.moving_objects) >= 2
                      THEN info.moving_objects[1] ELSE None
                M2 == IF Len(info.moving_objects) >= 2
                      THEN info.moving_objects[2] ELSE None
            IN  [base EXCEPT !.added_static = info.added_static,
                             !.added_moving = info.added_moving,
                             !.S = S, !.M1 = M1, !.M2 = M2,
                             !.events = LateEvents(d, M1, M2, S)]
        ELSE
            LET first_frame == trajectory[1].objects
                static_objects == StaticObjects(first_frame)
                S == IF static_objects = <<>> THEN None ELSE static_objects[1]
                M1 == IF d.collision # <<>>
                      THEN FirstOtherThan(d.collision[1].object_ids, S)
                      ELSE None
                M2 == LateOtherMoving(first_frame, M1, S)
            IN  IF S = None THEN base
                ELSE [base EXCEPT !.S = S, !.M1 = M1, !.M2 = M2,
                                  !.events = LateEvents(d, M1, M2, S)]

-----------------------------------------------------------------------------
(* Early-preemption analyzer, early.py *)

\* cross product of two integer vectors
Cross(u, v) == <<u[2] * v[3] - u[3] * v[2],
                 u[3] * v[1] - u[1] * v[3],
                 u[1] * v[2] - u[2] * v[1]>>

\* are_collinear(p1, p2, p3) with eps = 1e-2:
\*   |v1 x v2| <= eps * (|v1| + |v2| + 1e-6).
\* In location units this is 10 * sqrt(c2) <= sqrt(a2) + sqrt(b2) for the
\* squared norms c2, a2, b2, i.e. T <= 2 * sqrt(a2 * b2) for
\* T = 100 * c2 - a2 - b2; as 2 * sqrt(a2 * b2) <= a2 + b2 the square is
\* only taken when T is small.
AreCollinear(p1, p2, p3) ==
    LET v1 == Sub(p2, p1)
        v2 == Sub(p3, p1)
        c2 == Dot(Cross(v1, v2), Cross(v1, v2))
        a2 == Dot(v1, v1)
        b2 == Dot(v2, v2)
        T == 100 * c2 - a2 - b2
    IN  \/ T <= 0
        \/ T <= a2 + b2 /\ T * T <= 4 * a2 * b2

\* _calculate_distance in thousandths (a location unit is 0.1, so the
\* distance is sqrt(DistanceSq) / 10), rounded down
DistanceMilli(pos1, pos2) == ISqrt(10000 * DistanceSq(pos1, pos2))

\* is_between(p_left, p_mid, p_right) with rel_eps = 1e-2:
\*   abs((d_lm + d_mr) - d_lr) <= rel_eps * max(1.0, d_lr)
IsBetween(p_left, p_mid, p_right) ==
    LET d_lr == DistanceMilli(p_left, p_right)
        d_lm == DistanceMilli(p_left, p_mid)
        d_mr == DistanceMilli(p_mid, p_right)
        diff == (d_lm + d_mr) - d_lr
        abs_diff == IF diff < 0 THEN 0 - diff ELSE diff
    IN  100 * abs_diff <= (IF d_lr > 1000 THEN d_lr ELSE 1000)

\* the location / velocity of an object id in frame zero
\* (first_positions[obj_id], first_velocities[obj_id])
FirstOf(first_frame, obj_id) ==
    first_frame[CHOOSE k \in 1..Len(first_frame) :
                    first_frame[k].object_id = obj_id]

\* _analyze_early_events: per frame M1 -> S1, M2 -> S2, S1 starts moving,
\* S2 starts moving; then the collision events
EarlyEvents(d, M1, M2, S1, S2) ==
    LET trajectory == d.motion_trajectory
        events[n \in 0..Len(trajectory)] ==
            IF n = 0 THEN <<>>
            ELSE events[n - 1]
                 \o TowardsEvent(trajectory, n - 1, M1, S1)
                 \o TowardsEvent(trajectory, n - 1, M2, S2)
                 \o StartMovingEvent(trajectory, n - 1, S1)
                 \o StartMovingEvent(trajectory, n - 1, S2)
    IN  events[Len(trajectory)] \o CollisionEvents(d.collision)

\* s1_final_state: 'unknown' unless the trajectory has more than 10 frames
\* and S1 is bound; then 'moving' when S1 is faster than 0.01 in at least 3
\* of the last 5 frames
EarlyFinalState(trajectory, S1) ==
    IF Len(trajectory) > 10 /\ S1 # None
    THEN LET final_frames == (Len(trajectory) - 4)..Len(trajectory)
             moving == {k \in final_frames :
                           /\ InFrame(trajectory[k], S1)
                           /\ VelocityMagnitudeSq(FrameObject(trajectory[k], S1).velocity)
                                  > StationarySpeed * StationarySpeed}
         IN  IF Cardinality(moving) >= 3 THEN "moving" ELSE "stationary"
    ELSE "unknown"

\* the collisions of the sorted sequence between one initially moving and
\* one initially stationary object
MovingStaticCollisions(collision_sequence, moving_objects, static_objects) ==
    SelectSeq(collision_sequence,
              LAMBDA c :
                  /\ Len(c.object_ids) = 2
                  /\ \/ /\ InList(c.object_ids[1], moving_objects)
                        /\ InList(c.object_ids[2], static_objects)
                     \/ /\ InList(c.object_ids[2], moving_objects)
                        /\ InList(c.object_ids[1], static_objects))

\* objs[0] if objs[0] in pool else objs[1]
PickFrom(objs, pool) == IF InList(objs[1], pool) THEN objs[1] ELSE objs[2]

\* the roles read from an adjacent pair of moving-static collisions
EarlyPairRoles(first_c, second_c, moving_objects, static_objects) ==
    [M1 |-> PickFrom(first_c.object_ids, moving_objects),
     S1 |-> PickFrom(first_c.object_ids, static_objects),
     M2 |-> PickFrom(second_c.object_ids, moving_objects),
     S2 |-> PickFrom(second_c.object_ids, static_objects)]

\* the constraints of one adjacent pair: distinct roles, both movers
\* initially heading for their targets, M2, S2, S1 collinear with S2 between
EarlyPairAccepted(first_frame, r) ==
    /\ r.M1 # r.M2 /\ r.S1 # r.S2
    /\ IsMovingTowards(FirstOf(first_frame, r.M1).location,
                       FirstOf(first_frame, r.M1).velocity,
                       FirstOf(first_frame, r.S1).location,
                       FirstOf(first_frame, r.S1).velocity)
    /\ IsMovingTowards(FirstOf(first_frame, r.M2).location,
                       FirstOf(first_frame, r.M2).velocity,
                       FirstOf(first_frame, r.S2).location,
                       FirstOf(first_frame, r.S2).velocity)
    /\ AreCollinear(FirstOf(first_frame, r.M2).location,
                    FirstOf(first_frame, r.S2).location,
                    FirstOf(first_frame, r.S1).location)
    /\ IsBetween(FirstOf(first_frame, r.M2).location,
                 FirstOf(first_frame, r.S2).location,
                 FirstOf(first_frame, r.S1).location)

\* the role search of the branch without a setting: the first accepted
\* adjacent pair, else the earliest two moving-static collisions, else no
\* binding
EarlyRolesFromCollisions(first_frame, ms_collisions, moving_objects, static_objects) ==
    LET Roles(i) == EarlyPairRoles(ms_collisions[i], ms_collisions[i + 1],
                                   moving_objects, static_objects)
        Accepted(i) == EarlyPairAccepted(first_frame, Roles(i))
        pairs == 1..(Len(ms_collisions) - 1)
    IN  IF Len(ms_collisions) >= 2
        THEN IF \E i \in pairs : Accepted(i)
             THEN Roles(CHOOSE i \in pairs :
                            Accepted(i) /\ \A j \in 1..(i - 1) : ~Accepted(j))
             ELSE Roles(1)
        ELSE [M1 |-> None, S1 |-> None, M2 |-> None, S2 |-> None]

\* EarlyScenarioQAGenerator.analyze_scenario(data, setting)
EarlyAnalyze(d, s) ==
    LET trajectory == d.motion_trajectory
        base == [M1 |-> None, M2 |-> None, S1 |-> None, S2 |-> None,
                 events |-> <<>>,
                 collision_info |-> d.collision,
                 collision_sequence |-> <<>>,
                 added_static |-> <<>>,
                 added_moving |-> <<>>,
                 s1_final_state |-> "unset"]
    IN  IF SettingIsSet(s) THEN
            LET info == IdentifyObjectsBySetting(trajectory, s, "early")
                two_static == Len(info.static_objects) >= 2
                two_moving == Len(info.moving_objects) >= 2
                S1 == IF two_static THEN info.static_objects[1] ELSE None
                S2 == IF two_static THEN info.static_objects[2] ELSE None
                M1 == IF two_moving THEN info.moving_objects[1] ELSE None
                M2 == IF two_moving THEN info.moving_objects[2] ELSE None
            IN  [base EXCEPT !.added_static = info.added_static,
                             !.added_moving = info.added_moving,
                             !.S1 = S1, !.S2 = S2, !.M1 = M1, !.M2 = M2,
                             !.events = EarlyEvents(d, M1, M2, S1, S2),
                             !.s1_final_state = EarlyFinalState(trajectory, S1)]
        ELSE
            LET first_frame == trajectory[1].objects
                static_objects == StaticObjects(first_frame)
                moving_objects == MovingObjects(first_frame)
                collision_sequence == SortedByFrame(d.collision)
                ms_collisions == MovingStaticCollisions(collision_sequence,
                                                        moving_objects, static_objects)
                r == EarlyRolesFromCollisions(first_frame, ms_collisions,
                                              moving_objects, static_objects)
            IN  IF Len(static_objects) < 2 \/ Len(moving_objects) < 2 THEN base
                ELSE [base EXCEPT !.collision_sequence = collision_sequence,
                                  !.S1 = r.S1, !.S2 = r.S2, !.M1 = r.M1, !.M2 = r.M2,
                                  !.events = EarlyEvents(d, r.M1, r.M2, r.S1, r.S2),
                                  !.s1_final_state = EarlyFinalState(trajectory, r.S1)]

-----------------------------------------------------------------------------
(* Double-prevention analyzer, double.py *)

\* a variant of the lookback that reads every frame before the collision
CheckMovingTowardsSinceStart(trajectory, obj_id, target_id, collision_frame) ==
    LET frames_to_check == IF collision_frame < 5 THEN collision_frame ELSE 5
        from == IF collision_frame - frames_to_check > 0
                THEN collision_frame - frames_to_check ELSE 0
    IN  \E i \in 0..(collision_frame - 1) :
            /\ InFrame(trajectory[i + 1], obj_id)
            /\ InFrame(trajectory[i + 1], target_id)
            /\ IsMovingTowards(FrameObject(trajectory[i + 1], obj_id).location,
                               FrameObject(trajectory[i + 1], obj_id).velocity,
                               FrameObject(trajectory[i + 1], target_id).location,
                               FrameObject(trajectory[i + 1], target_id).velocity)

\* _check_moving_towards_before_collision(trajectory, obj_id, target_id,
\* collision_frame): some frame i in
\* range(max(0, collision_frame - min(5, collision_frame)), collision_frame)
\* holds both objects with obj_id moving towards target_id
CheckMovingTowardsBeforeCollision(trajectory, obj_id, target_id, collision_frame) ==
    LET frames_to_check == IF collision_frame < 5 THEN collision_frame ELSE 5
        from == IF collision_frame - frames_to_check > 0
                THEN collision_frame - frames_to_check ELSE 0
    IN  \E i \in from..(collision_frame - 1) :
            /\ InFrame(trajectory[i + 1], obj_id)
            /\ InFrame(trajectory[i + 1], target_id)
            /\ IsMovingTowards(FrameObject(trajectory[i + 1], obj_id).location,
                               FrameObject(trajectory[i + 1], obj_id).velocity,
                               FrameObject(trajectory[i + 1], target_id).location,
                               FrameObject(trajectory[i + 1], target_id).velocity)

\* the direction test of the trajectory_deviation event: both speeds above
\* 0.1 and the cosine of the angle between the velocities below 0.5, i.e.
\* 2 * dot < |current| * |prev|
DirectionChanged(current_vel, prev_vel) ==
    LET c2 == VelocityMagnitudeSq(current_vel)
        p2 == VelocityMagnitudeSq(prev_vel)
        dot_product == Dot(current_vel, prev_vel)
    IN  /\ c2 > TowardsSpeed * TowardsSpeed
        /\ p2 > TowardsSpeed * TowardsSpeed
        /\ \/ dot_product < 0
           \/ 4 * dot_product * dot_product < c2 * p2

\* a variant of the extractor: the approach of M2 toward M1 is logged at
\* every frame, also after M2 has deviated
DoubleEventsWithoutSuppression(d, M1, M2, M3, S) ==
    LET trajectory == d.motion_trajectory
        Deviates(i) ==
            /\ M2 # None /\ InFrame(trajectory[i + 1], M2) /\ i > 0
            /\ InFrame(trajectory[i], M2)
            /\ DirectionChanged(FrameObject(trajectory[i + 1], M2).velocity,
                                FrameObject(trajectory[i], M2).velocity)
        st[n \in 0..Len(trajectory)] ==
            IF n = 0 THEN [events |-> <<>>, m2_trajectory_changed |-> FALSE]
            ELSE LET i == n - 1
                     before == st[n - 1]
                     fires == Deviates(i) /\ ~before.m2_trajectory_changed
                 IN  [events |->
                          before.events
                          \o TowardsEvent(trajectory, i, M1, S)
                          \o TowardsEvent(trajectory, i, M2, M1)
                          \o TowardsEvent(trajectory, i, M3, M2)
                          \o (IF fires
                              THEN <<[type |-> "trajectory_deviation", frame |-> i,
                                      subject |-> M2]>>
                              ELSE <<>>)
                          \o StartMovingEvent(trajectory, i, S),
                      m2_trajectory_changed |-> before.m2_trajectory_changed \/ fires]
    IN  [events |-> st[Len(trajectory)].events \o CollisionEvents(d.collision),
         trajectory_deviation |-> st[Len(trajectory)].m2_trajectory_changed]

\* _analyze_double_events: per frame M1 -> S, M2 -> M1 (until M2 has
\* deviated), M3 -> M2, the trajectory_deviation latch, S starts moving.
\* Returns the events and the trajectory_deviation flag of the analysis.
DoubleEvents(d, M1, M2, M3, S) ==
    LET trajectory == d.motion_trajectory
        Deviates(i) ==
            /\ M2 # None /\ InFrame(trajectory[i + 1], M2) /\ i > 0
            /\ InFrame(trajectory[i], M2)
            /\ DirectionChanged(FrameObject(trajectory[i + 1], M2).velocity,
                                FrameObject(trajectory[i], M2).velocity)
        st[n \in 0..Len(trajectory)] ==
            IF n = 0 THEN [events |-> <<>>, m2_trajectory_changed |-> FALSE]
            ELSE LET i == n - 1
                     before == st[n - 1]
                     fires == Deviates(i) /\ ~before.m2_trajectory_changed
                 IN  [events |->
                          before.events
                          \o TowardsEvent(trajectory, i, M1, S)
                          \o (IF before.m2_trajectory_changed THEN <<>>
                              ELSE TowardsEvent(trajectory, i, M2, M1))
                          \o TowardsEvent(trajectory, i, M3, M2)
                          \o (IF fires
                              THEN <<[type |-> "trajectory_deviation", frame |-> i,
                                      subject |-> M2]>>
                              ELSE <<>>)
                          \o StartMovingEvent(trajectory, i, S),
                      m2_trajectory_changed |-> before.m2_trajectory_changed \/ fires]
    IN  [events |-> st[Len(trajectory)].events \o CollisionEvents(d.collision),
         trajectory_deviation |-> st[Len(trajectory)].m2_trajectory_changed]

\* M2 and M3 from the first collision (double.py lines 83-111): the
\* candidates are set in the order of the collision's ids, a later id
\* overwriting an earlier one
DoubleRolesFromFirstCollision(trajectory, first_collision, moving_objects, M1) ==
    LET collision_objects == first_collision.object_ids
        remaining_objects == SelectSeq(moving_objects, LAMBDA obj : obj # M1)
        Remaining(k) == InList(collision_objects[k], remaining_objects)
        Towards(k) == CheckMovingTowardsBeforeCollision(
                          trajectory, collision_objects[k], M1, first_collision.frame_id)
        m2_candidate == IF Remaining(2) /\ Towards(2) THEN collision_objects[2]
                        ELSE IF Remaining(1) /\ Towards(1) THEN collision_objects[1]
                        ELSE None
        m3_candidate == IF Remaining(2) /\ ~Towards(2) THEN collision_objects[2]
                        ELSE IF Remaining(1) /\ ~Towards(1) THEN collision_objects[1]
                        ELSE None
        fallback_M2 == IF InList(collision_objects[1], remaining_objects)
                       THEN collision_objects[1] ELSE collision_objects[2]
    IN  IF Len(collision_objects) # 2 THEN [M2 |-> None, M3 |-> None]
        ELSE IF m2_candidate # None
        THEN [M2 |-> m2_candidate,
              M3 |-> IF m3_candidate # None THEN m3_candidate
                     ELSE IF collision_objects[1] = m2_candidate
                          THEN collision_objects[2] ELSE collision_objects[1]]
        ELSE [M2 |-> fallback_M2,
              M3 |-> IF collision_objects[1] = fallback_M2
                     THEN collision_objects[2] ELSE collision_objects[1]]

\* DoubleScenarioQAGenerator.analyze_scenario(data, setting)
DoubleAnalyze(d, s) ==
    LET trajectory == d.motion_trajectory
        base == [M1 |-> None, M2 |-> None, M3 |-> None, S |-> None,
                 events |-> <<>>,
                 collision_info |-> d.collision,
                 collision_sequence |-> <<>>,
                 trajectory_deviation |-> FALSE,
                 added_static |-> <<>>,
                 added_moving |-> <<>>]
        WithEvents(a) ==
            LET ev == DoubleEvents(d, a.M1, a.M2, a.M3, a.S)
            IN  [a EXCEPT !.events = ev.events,
                          !.trajectory_deviation = ev.trajectory_deviation]
    IN  IF SettingIsSet(s) THEN
            LET info == IdentifyObjectsBySetting(trajectory, s, "double")
                three == Len(info.moving_objects) >= 3
            IN  WithEvents(
                    [base EXCEPT
                       !.added_static = info.added_static,
                       !.added_moving = info.added_moving,
                       !.S = IF Len(info.static_objects) >= 1
                             THEN info.static_objects[1] ELSE None,
                       !.M1 = IF three THEN info.moving_objects[1] ELSE None,
                       !.M2 = IF three THEN info.moving_objects[2] ELSE None,
                       !.M3 = IF three THEN info.moving_objects[3] ELSE None])
        ELSE
            LET first_frame == trajectory[1].objects
                static_objects == StaticObjects(first_frame)
                moving_objects == MovingObjects(first_frame)
                S == static_objects[1]
                collision_sequence == SortedByFrame(d.collision)
                two == Len(collision_sequence) >= 2
                M1 == IF two
                      THEN FirstOtherThan(collision_sequence[2].object_ids, S)
                      ELSE None
                r == IF two
                     THEN DoubleRolesFromFirstCollision(
                              trajectory, collision_sequence[1], moving_objects, M1)
                     ELSE [M2 |-> None, M3 |-> None]
            IN  IF Len(static_objects) < 1 \/ Len(moving_objects) < 3 THEN base
                ELSE WithEvents(
                         [base EXCEPT !.S = S,
                                      !.collision_sequence = collision_sequence,
                                      !.M1 = M1, !.M2 = r.M2, !.M3 = r.M3])

-----------------------------------------------------------------------------
(* Bogus-prevention analyzer, bogus.py *)

\* 0.3 and 0.5 in location units: "still some distance away when stopping"
\* and "still has some distance when closest"
StoppingDistance == 3
ClosestDistance == 5
\* the cross product threshold 0.5 in squared location units
CollinearCross == 50

\* the collinear_objects of _analyze_collinearity_and_momentum: [M2, S2, S1]
\* when all three are in frame zero, both xy vectors are non-zero and the
\* absolute 2D cross product of (S2 - M2) and (S1 - S2) is below 0.5
BogusCollinearObjects(trajectory, M2, S1, S2) ==
    LET frame == trajectory[1]
    IN  IF InFrame(frame, M2) /\ InFrame(frame, S1) /\ InFrame(frame, S2)
        THEN LET m2_pos == FrameObject(frame, M2).location
                 s1_pos == FrameObject(frame, S1).location
                 s2_pos == FrameObject(frame, S2).location
                 vec1 == <<s2_pos[1] - m2_pos[1], s2_pos[2] - m2_pos[2]>>
                 vec2 == <<s1_pos[1] - s2_pos[1], s1_pos[2] - s2_pos[2]>>
                 cross == vec1[1] * vec2[2] - vec1[2] * vec2[1]
                 cross_product == IF cross < 0 THEN 0 - cross ELSE cross
             IN  IF /\ vec1 # <<0, 0>> /\ vec2 # <<0, 0>>
                    /\ cross_product < CollinearCross
                 THEN <<M2, S2, S1>> ELSE <<>>
        ELSE <<>>

\* the momentum test: over the frames holding both M2 and S2 the least
\* distance is above 0.5 (infinite when there is no such frame) and the
\* speed of M2 in the last such frame (0 when there is none) is below 0.1
BogusInsufficientMomentum(trajectory, M2, S2) ==
    LET both == {k \in 1..Len(trajectory) :
                    InFrame(trajectory[k], M2) /\ InFrame(trajectory[k], S2)}
        last == CHOOSE k \in both : \A j \in both : j <= k
    IN  /\ \A k \in both :
              DistanceSq(FrameObject(trajectory[k], M2).location,
                         FrameObject(trajectory[k], S2).location)
                  > ClosestDistance * ClosestDistance
        /\ \/ both = {}
           \/ VelocityMagnitudeSq(FrameObject(trajectory[last], M2).velocity)
                  < TowardsSpeed * TowardsSpeed

\* _analyze_bogus_events: per frame M1 -> S2, M2 -> S2, the
\* insufficient_momentum latch of M2 (speed < 0.05 with S2 further than
\* 0.3, once), S2 starts moving
BogusEvents(d, M1, M2, S1, S2) ==
    LET trajectory == d.motion_trajectory
        Stops(i) ==
            /\ M2 # None /\ InFrame(trajectory[i + 1], M2)
            /\ VelocityMagnitudeSq(FrameObject(trajectory[i + 1], M2).velocity)
                   < StoppedSpeed * StoppedSpeed
            /\ InFrame(trajectory[i + 1], S2)
            /\ DistanceSq(FrameObject(trajectory[i + 1], M2).location,
                          FrameObject(trajectory[i + 1], S2).location)
                   > StoppingDistance * StoppingDistance
        st[n \in 0..Len(trajectory)] ==
            IF n = 0 THEN [events |-> <<>>, m2_stopped |-> FALSE]
            ELSE LET i == n - 1
                     before == st[n - 1]
                     fires == Stops(i) /\ ~before.m2_stopped
                 IN  [events |->
                          before.events
                          \o TowardsEvent(trajectory, i, M1, S2)
                          \o TowardsEvent(trajectory, i, M2, S2)
                          \o (IF fires
                              THEN <<[type |-> "insufficient_momentum", frame |-> i,
                                      subject |-> M2]>>
                              ELSE <<>>)
                          \o StartMovingEvent(trajectory, i, S2),
                      m2_stopped |-> before.m2_stopped \/ fires]
    IN  st[Len(trajectory)].events \o CollisionEvents(d.collision)

\* BogusScenarioQAGenerator.analyze_scenario(data, setting)
BogusAnalyze(d, s) ==
    LET trajectory == d.motion_trajectory
        base == [M1 |-> None, M2 |-> None, S1 |-> None, S2 |-> None,
                 events |-> <<>>,
                 collision_info |-> d.collision,
                 collinear_objects |-> <<>>,
                 m2_insufficient_momentum |-> FALSE,
                 added_static |-> <<>>,
                 added_moving |-> <<>>]
        Finish(a) ==
            LET bound == a.M2 # None /\ a.S1 # None /\ a.S2 # None
            IN  [a EXCEPT
                   !.collinear_objects =
                       IF bound THEN BogusCollinearObjects(trajectory, a.M2, a.S1, a.S2)
                       ELSE <<>>,
                   !.m2_insufficient_momentum =
                       bound /\ BogusInsufficientMomentum(trajectory, a.M2, a.S2),
                   !.events = BogusEvents(d, a.M1, a.M2, a.S1, a.S2)]
    IN  IF SettingIsSet(s) THEN
            LET info == IdentifyObjectsBySetting(trajectory, s, "bogus")
                two_static == Len(info.static_objects) >= 2
                two_moving == Len(info.moving_objects) >= 2
            IN  Finish([base EXCEPT
                          !.added_static = info.added_static,
                          !.added_moving = info.added_moving,
                          !.S1 = IF two_static THEN info.static_objects[1] ELSE None,
                          !.S2 = IF two_static THEN info.static_objects[2] ELSE None,
                          !.M1 = IF two_moving THEN info.moving_objects[1] ELSE None,
                          !.M2 = IF two_moving THEN info.moving_objects[2] ELSE None])
        ELSE
            LET first_frame == trajectory[1].objects
                static_objects == StaticObjects(first_frame)
                moving_objects == MovingObjects(first_frame)
                S2 == IF d.collision # <<>>
                      THEN FirstIn(d.collision[1].object_ids, static_objects)
                      ELSE None
                M1 == IF d.collision # <<>>
                      THEN FirstIn(d.collision[1].object_ids, moving_objects)
                      ELSE None
            IN  IF Len(static_objects) < 2 \/ Len(moving_objects) < 2 THEN base
                ELSE Finish([base EXCEPT
                               !.S2 = S2, !.M1 = M1,
                               !.S1 = FirstOtherThan(static_objects, S2),
                               !.M2 = FirstOtherThan(moving_objects, M1)])

\* analyze_scenario of the generator registered for `name`
\* (QAPairGenerator.generators[name])
AnalyzeScenario(name, d, s) ==
    CASE name = "overdetermination" -> OverdeterminationAnalyze(d, s)
      [] name = "switch" -> SwitchAnalyze(d, s)
      [] name = "late" -> LateAnalyze(d, s)
      [] name = "early" -> EarlyAnalyze(d, s)
      [] name = "double" -> DoubleAnalyze(d, s)
      [] name = "bogus" -> BogusAnalyze(d, s)

-----------------------------------------------------------------------------
(* Text, shuffles and answer indices shared by the six synthesizers *)

\* _get_object_description(obj_id, objects): the first entry of the property
\* table with that id gives "color material shape", else "object <id>"
GetObjectDescription(obj_id, objects) ==
    IF \E k \in 1..Len(objects) : objects[k].object_id = obj_id
    THEN LET obj == objects[CHOOSE k \in 1..Len(objects) :
                                /\ objects[k].object_id = obj_id
                                /\ \A j \in 1..(k - 1) : objects[j].object_id # obj_id]
         IN  obj.color \o " " \o obj.material \o " " \o obj.shape
    ELSE IF obj_id = None THEN "object None"
    ELSE "object " \o ToString(obj_id)

\* the distractor description variables (as_desc ... am2_desc), set by the
\* same if/elif chain in every generate_qa_templates and
\* generate_cr_templates; a variable left at None is NoDesc
DistractorDescriptions(d, a, s) ==
    LET Desc(obj_id) == GetObjectDescription(obj_id, d.object_property)
        one_static == s = ADD_ONE_STATIC /\ Len(a.added_static) >= 1
        two_static == s = ADD_TWO_STATIC /\ Len(a.added_static) >= 2
        one_moving == s = ADD_ONE_MOVING /\ Len(a.added_moving) >= 1
        two_moving == s = ADD_TWO_MOVING /\ Len(a.added_moving) >= 2
    IN  [as_desc |-> IF one_static THEN Desc(a.added_static[1]) ELSE NoDesc,
         as1_desc |-> IF two_static THEN Desc(a.added_static[1]) ELSE NoDesc,
         as2_desc |-> IF two_static THEN Desc(a.added_static[2]) ELSE NoDesc,
         am_desc |-> IF one_moving THEN Desc(a.added_moving[1]) ELSE NoDesc,
         am1_desc |-> IF two_moving THEN Desc(a.added_moving[1]) ELSE NoDesc,
         am2_desc |-> IF two_moving THEN Desc(a.added_moving[2]) ELSE NoDesc]

\* outcomes of the random generator the two shuffles are checked for
NumSeeds == 12

\* the order random.sample(options, len(options)) produces for a list of n
\* options under outcome r: one of the n rotations and the n rotations of
\* the reversed list (for n <= 3 these are all the permutations of 1..n)
SampleOrder(n, r) ==
    IF n = 0 THEN <<>>
    ELSE LET q == r % (2 * n)
         IN  IF q < n
             THEN [i \in 1..n |-> ((i + q - 1) % n) + 1]
             ELSE [i \in 1..n |-> ((n - i + (q - n)) % n) + 1]

\* random.sample(options, len(options)) for the permutation p: element p[i]
\* of the options at place i
Shuffled(options, p) == [i \in 1..Len(options) |-> options[p[i]]]

\* shuffled_options.index(ans): the 0-based place of the first occurrence
ListIndex(shuffled_options, ans) ==
    (CHOOSE i \in 1..Len(shuffled_options) :
        /\ shuffled_options[i] = ans
        /\ \A j \in 1..(i - 1) : shuffled_options[j] # ans) - 1

\* list.sort() of a list of integers
RECURSIVE InsertSorted(_, _)
InsertSorted(n, sorted) ==
    IF sorted = <<>> THEN <<n>>
    ELSE IF Head(sorted) <= n THEN <<Head(sorted)>> \o InsertSorted(n, Tail(sorted))
    ELSE <<n>> \o sorted

RECURSIVE SortedList(_)
SortedList(lst) ==
    IF lst = <<>> THEN <<>>
    ELSE InsertSorted(lst[Len(lst)], SortedList(SubSeq(lst, 1, Len(lst) - 1)))

\* shuffled_options.index(ans) raises ValueError for some correct answer
IndexRaises(shuffled_options, correct_answers) ==
    \E k \in 1..Len(correct_answers) : ~InList(correct_answers[k], shuffled_options)

\* answer_indices = [shuffled_options.index(ans) for ans in correct_answers]
\* followed by answer_indices.sort()
AnswerIndices(shuffled_options, correct_answers) ==
    SortedList([k \in 1..Len(correct_answers) |->
                   ListIndex(shuffled_options, correct_answers[k])])

\* a variant of the answer map: every definition is given the indices of
\* the strings of HP
AnswerOfOneDefinition(shuffled_options, mapping) ==
    [definition \in DOMAIN mapping |->
        AnswerIndices(shuffled_options, mapping["HP"])]

\* the answer of the actual_cause question: for each definition of the
\* mapping the sorted indices of its strings in the one shuffled list
AnswerByDefinition(shuffled_options, mapping) ==
    [definition \in DOMAIN mapping |->
        AnswerIndices(shuffled_options, mapping[definition])]

\* the value of causal_graph and twin_network when they are None
NullModel == [null |-> TRUE]

-----------------------------------------------------------------------------
(* Overdetermination synthesizer and encoder, overdetermination.py *)

\* the early return of generate_qa_templates: `return []`
OverdeterminationQARolesMissing(a) ==
    a.M1 = None \/ a.M2 = None \/ a.S = None

\* the description variables of generate_qa_templates
OverdeterminationDescriptions(d, a, s) ==
    LET distractors == DistractorDescriptions(d, a, s)
    IN  [
         m1_desc |-> GetObjectDescription(a.M1, d.object_property),
         m2_desc |-> GetObjectDescription(a.M2, d.object_property),
         s_desc |-> GetObjectDescription(a.S, d.object_property),
         as_desc |-> distractors.as_desc,
         as1_desc |-> distractors.as1_desc,
         as2_desc |-> distractors.as2_desc,
         am_desc |-> distractors.am_desc,
         am1_desc |-> distractors.am1_desc,
         am2_desc |-> distractors.am2_desc]

\* the pre-shuffle option list of the causal_attribution question
OverdeterminationAttributionOptions(x, s) ==
    IF ~SettingIsSet(s) THEN
        <<"Because the " \o x.m1_desc \o " moved toward the " \o x.s_desc \o
              ".",
          "Because the " \o x.m2_desc \o " moved toward the " \o x.s_desc \o
              ".",
          "Because the " \o x.m1_desc \o " and the " \o x.m2_desc \o
              " moved toward the " \o x.s_desc \o ".",
          "Because the " \o x.s_desc \o " moved spontaneously.">>
    ELSE IF s = ADD_ONE_STATIC /\ DescIsSet(x.as_desc) THEN
        <<"Because the " \o x.m1_desc \o " moved toward the " \o x.s_desc \o
              ".",
          "Because the " \o x.m2_desc \o " moved toward the " \o x.s_desc \o
              ".",
          "Because the " \o x.m1_desc \o " and the " \o x.m2_desc \o
              " moved toward the " \o x.s_desc \o ".",
          "Because the " \o x.as_desc \o " was present.",
          "Because the " \o x.s_desc \o " moved spontaneously.">>
    ELSE IF s = ADD_TWO_STATIC /\ DescIsSet(x.as1_desc) /\ DescIsSet(x.as2_desc) THEN
        <<"Because the " \o x.m1_desc \o " moved toward the " \o x.s_desc \o
              ".",
          "Because the " \o x.m2_desc \o " moved toward the " \o x.s_desc \o
              ".",
          "Because the " \o x.m1_desc \o " and the " \o x.m2_desc \o
              " moved toward the " \o x.s_desc \o ".",
          "Because the " \o x.as1_desc \o " was present.",
          "Because the " \o x.as2_desc \o " was present.",
          "Because the " \o x.s_desc \o " moved spontaneously.">>
    ELSE IF s = ADD_ONE_MOVING /\ DescIsSet(x.am_desc) THEN
        <<"Because the " \o x.m1_desc \o " moved toward the " \o x.s_desc \o
              ".",
          "Because the " \o x.m2_desc \o " moved toward the " \o x.s_desc \o
              ".",
          "Because the " \o x.m1_desc \o " and the " \o x.m2_desc \o
              " moved toward the " \o x.s_desc \o ".",
          "Because the " \o x.am_desc \o " was present.",
          "Because the " \o x.s_desc \o " moved spontaneously.">>
    ELSE IF s = ADD_TWO_MOVING /\ DescIsSet(x.am1_desc) /\ DescIsSet(x.am2_desc) THEN
        <<"Because the " \o x.m1_desc \o " moved toward the " \o x.s_desc \o
              ".",
          "Because the " \o x.m2_desc \o " moved toward the " \o x.s_desc \o
              ".",
          "Because the " \o x.m1_desc \o " and the " \o x.m2_desc \o
              " moved toward the " \o x.s_desc \o ".",
          "Because the " \o x.am1_desc \o " was present.",
          "Because the " \o x.am2_desc \o " was present.",
          "Because the " \o x.s_desc \o " moved spontaneously.">>
    ELSE <<>>

\* correct_answers of the causal_attribution question
OverdeterminationAttributionCorrect(x) ==
    <<"Because the " \o x.m1_desc \o " moved toward the " \o x.s_desc \o ".",
      "Because the " \o x.m2_desc \o " moved toward the " \o x.s_desc \o ".">>

\* the pre-shuffle option list of the actual_cause question
OverdeterminationActualCauseOptions(x, s) ==
    IF ~SettingIsSet(s) THEN
        <<"The " \o x.m1_desc \o " moves toward the " \o x.s_desc \o ".",
          "The " \o x.m2_desc \o " moves toward the " \o x.s_desc \o ".",
          "The " \o x.m1_desc \o " and the " \o x.m2_desc \o
              " move toward the " \o x.s_desc \o ".",
          "None.">>
    ELSE IF s = ADD_ONE_STATIC /\ DescIsSet(x.as_desc) THEN
        <<"The " \o x.m1_desc \o " moves toward the " \o x.s_desc \o ".",
          "The " \o x.m2_desc \o " moves toward the " \o x.s_desc \o ".",
          "The " \o x.m1_desc \o " and the " \o x.m2_desc \o
              " move toward the " \o x.s_desc \o ".",
          "The " \o x.as_desc \o " is present.",
          "None.">>
    ELSE IF s = ADD_TWO_STATIC /\ DescIsSet(x.as1_desc) /\ DescIsSet(x.as2_desc) THEN
        <<"The " \o x.m1_desc \o " moves toward the " \o x.s_desc \o ".",
          "The " \o x.m2_desc \o " moves toward the " \o x.s_desc \o ".",
          "The " \o x.m1_desc \o " and the " \o x.m2_desc \o
              " move toward the " \o x.s_desc \o ".",
          "The " \o x.as1_desc \o " is present.",
          "The " \o x.as2_desc \o " is present.",
          "None.">>
    ELSE IF s = ADD_ONE_MOVING /\ DescIsSet(x.am_desc) THEN
        <<"The " \o x.m1_desc \o " moves toward the " \o x.s_desc \o ".",
          "The " \o x.m2_desc \o " moves toward the " \o x.s_desc \o ".",
          "The " \o x.m1_desc \o " and the " \o x.m2_desc \o
              " move toward the " \o x.s_desc \o ".",
          "The " \o x.am_desc \o " is present.",
          "None.">>
    ELSE IF s = ADD_TWO_MOVING /\ DescIsSet(x.am1_desc) /\ DescIsSet(x.am2_desc) THEN
        <<"The " \o x.m1_desc \o " moves toward the " \o x.s_desc \o ".",
          "The " \o x.m2_desc \o " moves toward the " \o x.s_desc \o ".",
          "The " \o x.m1_desc \o " and the " \o x.m2_desc \o
              " move toward the " \o x.s_desc \o ".",
          "The " \o x.am1_desc \o " is present.",
          "The " \o x.am2_desc \o " is present.",
          "None.">>
    ELSE <<>>

\* the option strings each definition of actual cause designates
OverdeterminationActualCauseMapping(x) ==
    [HP |-> <<"The " \o x.m1_desc \o " moves toward the " \o x.s_desc \o ".",
            "The " \o x.m2_desc \o " moves toward the " \o x.s_desc \o ".",
            "The " \o x.m1_desc \o " and the " \o x.m2_desc \o
                " move toward the " \o x.s_desc \o ".">>,
     BV |-> <<"The " \o x.m1_desc \o " moves toward the " \o x.s_desc \o ".",
            "The " \o x.m2_desc \o " moves toward the " \o x.s_desc \o ".">>,
     DBV |-> <<"The " \o x.m1_desc \o " moves toward the " \o x.s_desc \o ".",
             "The " \o x.m2_desc \o " moves toward the " \o x.s_desc \o ".">>,
     Boc |-> <<"The " \o x.m1_desc \o " moves toward the " \o x.s_desc \o ".",
             "The " \o x.m2_desc \o " moves toward the " \o x.s_desc \o ".">>]

\* qa_pairs of generate_qa_templates, in the order of the appends, for
\* the two shuffled option lists
OverdeterminationQAPairs(x, attribution_options, actual_cause_options) ==
    <<[question |-> "Does the " \o x.m1_desc \o "'s motion toward the " \o
                          x.s_desc \o " affect the " \o x.s_desc \o "'s motion?",
          answer |-> "Yes",
          question_type |-> "causality_identification",
          question_rung |-> "discovery",
          answer_type |-> "yes_no"],
      [question |-> "Does the " \o x.m2_desc \o "'s motion toward the " \o
                          x.s_desc \o " affect the " \o x.s_desc \o "'s motion?",
          answer |-> "Yes",
          question_type |-> "causality_identification",
          question_rung |-> "discovery",
          answer_type |-> "yes_no"],
      [question |-> "Why did the " \o x.s_desc \o " move?",
          answer |-> AnswerIndices(attribution_options, OverdeterminationAttributionCorrect(x)),
          question_type |-> "causal_attribution",
          question_rung |-> "discovery",
          answer_type |-> "multi_choice",
          options |-> attribution_options],
      [question |-> "If we force the " \o x.m1_desc \o
                          " not to move toward the " \o x.s_desc \o
                          ", will the " \o x.m2_desc \o " cause the " \o
                          x.s_desc \o " to move?",
          answer |-> "Yes",
          question_type |-> "individual_causal_effect",
          question_rung |-> "intervention",
          answer_type |-> "yes_no"],
      [question |-> "If we force the " \o x.m2_desc \o
                          " not to move toward the " \o x.s_desc \o
                          ", will the " \o x.m1_desc \o " cause the " \o
                          x.s_desc \o " to move?",
          answer |-> "Yes",
          question_type |-> "individual_causal_effect",
          question_rung |-> "intervention",
          answer_type |-> "yes_no"],
      [question |-> "If the " \o x.m1_desc \o " had not moved toward the " \o
                          x.s_desc \o ", would the " \o x.s_desc \o
                          " still have moved?",
          answer |-> "Yes",
          question_type |-> "counterfactual_reasoning",
          question_rung |-> "counterfactual",
          answer_type |-> "yes_no"],
      [question |-> "If the " \o x.m2_desc \o " had not moved toward the " \o
                          x.s_desc \o ", would the " \o x.s_desc \o
                          " still have moved?",
          answer |-> "Yes",
          question_type |-> "counterfactual_reasoning",
          question_rung |-> "counterfactual",
          answer_type |-> "yes_no"],
      [question |-> "Was the fact that the " \o x.m1_desc \o
                          " moved toward the " \o x.s_desc \o
                          " sufficient for the " \o x.s_desc \o " to move?",
          answer |-> "Yes",
          question_type |-> "sufficient_cause",
          question_rung |-> "counterfactual",
          answer_type |-> "yes_no"],
      [question |-> "Was the fact that the " \o x.m2_desc \o
                          " moved toward the " \o x.s_desc \o
                          " sufficient for the " \o x.s_desc \o " to move?",
          answer |-> "Yes",
          question_type |-> "sufficient_cause",
          question_rung |-> "counterfactual",
          answer_type |-> "yes_no"],
      [question |-> "Was the fact that the " \o x.m1_desc \o
                          " moved toward the " \o x.s_desc \o
                          " necessary for the " \o x.s_desc \o " to move?",
          answer |-> "No",
          question_type |-> "necessary_cause",
          question_rung |-> "counterfactual",
          answer_type |-> "yes_no"],
      [question |-> "Was the fact that the " \o x.m2_desc \o
                          " moved toward the " \o x.s_desc \o
                          " necessary for the " \o x.s_desc \o " to move?",
          answer |-> "No",
          question_type |-> "necessary_cause",
          question_rung |-> "counterfactual",
          answer_type |-> "yes_no"],
      [question |-> "What is the actual cause of the " \o x.s_desc \o
                          " moving?",
          answer |-> AnswerByDefinition(actual_cause_options, OverdeterminationActualCauseMapping(x)),
          question_type |-> "actual_cause",
          question_rung |-> "counterfactual",
          answer_type |-> "multi_choice",
          options |-> actual_cause_options],
      [question |-> "Was the fact that the " \o x.m1_desc \o
                          " moved toward the " \o x.s_desc \o
                          " responsible for the " \o x.s_desc \o " moving?",
          answer |-> "Yes",
          question_type |-> "responsibility",
          question_rung |-> "counterfactual",
          answer_type |-> "yes_no"],
      [question |-> "Was the fact that the " \o x.m2_desc \o
                          " moved toward the " \o x.s_desc \o
                          " responsible for the " \o x.s_desc \o " moving?",
          answer |-> "Yes",
          question_type |-> "responsibility",
          question_rung |-> "counterfactual",
          answer_type |-> "yes_no"]>>

\* the early return of generate_cr_templates: both models None
OverdeterminationCRRolesMissing(a) ==
    a.M1 = None \/ a.M2 = None \/ a.S = None

\* causal_graph of generate_cr_templates: the variables of the scenario,
\* extended by the indicator variables of the distractors, and the edges
OverdeterminationCausalGraph(x, s) ==
    LET variables ==
            ("X1" :> "The " \o x.m1_desc \o "'s motion toward the " \o x.s_desc)
            @@ ("X2" :> "The " \o x.m2_desc \o "'s motion toward the " \o x.s_desc)
            @@ ("Y" :> "The " \o x.s_desc \o "'s motion")
        edges == <<"X1 -> Y",
                   "X2 -> Y">>
    IN  [variables |->
             IF s = ADD_ONE_STATIC /\ DescIsSet(x.as_desc)
             THEN ("S" :> "The " \o x.as_desc \o "'s presence")
                  @@ variables
             ELSE IF s = ADD_TWO_STATIC /\ DescIsSet(x.as1_desc) /\ DescIsSet(x.as2_desc)
             THEN ("S1" :> "The " \o x.as1_desc \o "'s presence")
                  @@ ("S2" :> "The " \o x.as2_desc \o "'s presence")
                  @@ variables
             ELSE IF s = ADD_ONE_MOVING /\ DescIsSet(x.am_desc)
             THEN ("M" :> "The " \o x.am_desc \o "'s presence")
                  @@ variables
             ELSE IF s = ADD_TWO_MOVING /\ DescIsSet(x.am1_desc) /\ DescIsSet(x.am2_desc)
             THEN ("M1" :> "The " \o x.am1_desc \o "'s presence")
                  @@ ("M2" :> "The " \o x.am2_desc \o "'s presence")
                  @@ variables
             ELSE variables,
         edges |-> edges]

\* twin_network of generate_cr_templates: the factual world and the
\* counterfactual worlds, each extended by the distractors' assignments
OverdeterminationTwinNetwork(x, s) ==
    LET factual_world == "X1=1, X2=1, Y=1"
        counterfactual_world ==
            ("do(X1=0)" :> "X2=1, Y=1")
            @@ ("do(X2=0)" :> "X1=1, Y=1")
        Extended(factual_suffix, suffix) ==
            [factual_world |-> factual_world \o factual_suffix,
             counterfactual_world |->
                 [w \in DOMAIN counterfactual_world |->
                     counterfactual_world[w] \o suffix[w]]]
    IN  IF s = ADD_ONE_STATIC /\ DescIsSet(x.as_desc)
        THEN Extended(", S=1",
                      ("do(X1=0)" :> ", S=1")
                      @@ ("do(X2=0)" :> ", S=1"))
        ELSE IF s = ADD_TWO_STATIC /\ DescIsSet(x.as1_desc) /\ DescIsSet(x.as2_desc)
        THEN Extended(", S1=1, S2=1",
                      ("do(X1=0)" :> ", S1=1, S2=1")
                      @@ ("do(X2=0)" :> ", S1=1, S2=1"))
        ELSE IF s = ADD_ONE_MOVING /\ DescIsSet(x.am_desc)
        THEN Extended(", M=1",
                      ("do(X1=0)" :> ", M=1")
                      @@ ("do(X2=0)" :> ", M=1"))
        ELSE IF s = ADD_TWO_MOVING /\ DescIsSet(x.am1_desc) /\ DescIsSet(x.am2_desc)
        THEN Extended(", M1=1, M2=1",
                      ("do(X1=0)" :> ", M1=1, M2=1")
                      @@ ("do(X2=0)" :> ", M1=1, M2=1"))
        ELSE [factual_world |-> factual_world,
              counterfactual_world |-> counterfactual_world]

-----------------------------------------------------------------------------
(* Switch synthesizer and encoder, switch.py *)

\* the early return of generate_qa_templates: `return []`
SwitchQARolesMissing(a) ==
    a.M1 = None \/ a.M2 = None \/ a.S = None

\* the description variables of generate_qa_templates
SwitchDescriptions(d, a, s) ==
    LET distractors == DistractorDescriptions(d, a, s)
    IN  [
         m1_desc |-> GetObjectDescription(a.M1, d.object_property),
         m2_desc |-> GetObjectDescription(a.M2, d.object_property),
         s_desc |-> GetObjectDescription(a.S, d.object_property),
         as_desc |-> distractors.as_desc,
         as1_desc |-> distractors.as1_desc,
         as2_desc |-> distractors.as2_desc,
         am_desc |-> distractors.am_desc,
         am1_desc |-> distractors.am1_desc,
         am2_desc |-> distractors.am2_desc]

\* the pre-shuffle option list of the causal_attribution question
SwitchAttributionOptions(x, s) ==
    IF ~SettingIsSet(s) THEN
        <<"Because the " \o x.m1_desc \o " moved toward the " \o x.s_desc \o
              " before its collision with the " \o x.m2_desc \o ".",
          "Because the " \o x.m2_desc \o " collided with the " \o x.m1_desc \o
              ".",
          "Because the " \o x.m1_desc \o " moved toward the " \o x.s_desc \o
              " after its collision with the " \o x.m2_desc \o ".",
          "Because the " \o x.s_desc \o " moved spontaneously.">>
    ELSE IF s = ADD_ONE_STATIC /\ DescIsSet(x.as_desc) THEN
        <<"Because the " \o x.m1_desc \o " moved toward the " \o x.s_desc \o
              " before its collision with the " \o x.m2_desc \o ".",
          "Because the " \o x.m2_desc \o " collided with the " \o x.m1_desc \o
              ".",
          "Because the " \o x.m1_desc \o " moved toward the " \o x.s_desc \o
              " after its collision with the " \o x.m2_desc \o ".",
          "Because the " \o x.as_desc \o " was present.",
          "Because the " \o x.s_desc \o " moved spontaneously.">>
    ELSE IF s = ADD_TWO_STATIC /\ DescIsSet(x.as1_desc) /\ DescIsSet(x.as2_desc) THEN
        <<"Because the " \o x.m1_desc \o " moved toward the " \o x.s_desc \o
              " before its collision with the " \o x.m2_desc \o ".",
          "Because the " \o x.m2_desc \o " collided with the " \o x.m1_desc \o
              ".",
          "Because the " \o x.m1_desc \o " moved toward the " \o x.s_desc \o
              " after its collision with the " \o x.m2_desc \o ".",
          "Because the " \o x.as1_desc \o " was present.",
          "Because the " \o x.as2_desc \o " was present.",
          "Because the " \o x.s_desc \o " moved spontaneously.">>
    ELSE IF s = ADD_ONE_MOVING /\ DescIsSet(x.am_desc) THEN
        <<"Because the " \o x.m1_desc \o " moved toward the " \o x.s_desc \o
              " before its collision with the " \o x.m2_desc \o ".",
          "Because the " \o x.m2_desc \o " collided with the " \o x.m1_desc \o
              ".",
          "Because the " \o x.m1_desc \o " moved toward the " \o x.s_desc \o
              " after its collision with the " \o x.m2_desc \o ".",
          "Because the " \o x.am_desc \o " was present.",
          "Because the " \o x.s_desc \o " moved spontaneously.">>
    ELSE IF s = ADD_TWO_MOVING /\ DescIsSet(x.am1_desc) /\ DescIsSet(x.am2_desc) THEN
        <<"Because the " \o x.m1_desc \o " moved toward the " \o x.s_desc \o
              " before its collision with the " \o x.m2_desc \o ".",
          "Because the " \o x.m2_desc \o " collided with the " \o x.m1_desc \o
              ".",
          "Because the " \o x.m1_desc \o " moved toward the " \o x.s_desc \o
              " after its collision with the " \o x.m2_desc \o ".",
          "Because the " \o x.am1_desc \o " was present.",
          "Because the " \o x.am2_desc \o " was present.",
          "Because the " \o x.s_desc \o " moved spontaneously.">>
    ELSE <<>>

\* correct_answers of the causal_attribution question
SwitchAttributionCorrect(x) ==
    <<"Because the " \o x.m1_desc \o " moved toward the " \o x.s_desc \o
          " after its collision with the " \o x.m2_desc \o ".">>

\* the pre-shuffle option list of the actual_cause question
SwitchActualCauseOptions(x, s) ==
    IF ~SettingIsSet(s) THEN
        <<"The " \o x.m1_desc \o " moves toward the " \o x.s_desc \o
              " before its collision with the " \o x.m2_desc \o ".",
          "The " \o x.m2_desc \o " collides with the " \o x.m1_desc \o ".",
          "The " \o x.m1_desc \o " moves toward the " \o x.s_desc \o
              " after its collision with the " \o x.m2_desc \o ".",
          "None.">>
    ELSE IF s = ADD_ONE_STATIC /\ DescIsSet(x.as_desc) THEN
        <<"The " \o x.m1_desc \o " moves toward the " \o x.s_desc \o
              " before its collision with the " \o x.m2_desc \o ".",
          "The " \o x.m2_desc \o " collides with the " \o x.m1_desc \o ".",
          "The " \o x.m1_desc \o " moves toward the " \o x.s_desc \o
              " after its collision with the " \o x.m2_desc \o ".",
          "The " \o x.as_desc \o " is present.",
          "None.">>
    ELSE IF s = ADD_TWO_STATIC /\ DescIsSet(x.as1_desc) /\ DescIsSet(x.as2_desc) THEN
        <<"The " \o x.m1_desc \o " moves toward the " \o x.s_desc \o
              " before its collision with the " \o x.m2_desc \o ".",
          "The " \o x.m2_desc \o " collides with the " \o x.m1_desc \o ".",
          "The " \o x.m1_desc \o " moves toward the " \o x.s_desc \o
              " after its collision with the " \o x.m2_desc \o ".",
          "The " \o x.as1_desc \o " is present.",
          "The " \o x.as2_desc \o " is present.",
          "None.">>
    ELSE IF s = ADD_ONE_MOVING /\ DescIsSet(x.am_desc) THEN
        <<"The " \o x.m1_desc \o " moves toward the " \o x.s_desc \o
              " before its collision with the " \o x.m2_desc \o ".",
          "The " \o x.m2_desc \o " collides with the " \o x.m1_desc \o ".",
          "The " \o x.m1_desc \o " moves toward the " \o x.s_desc \o
              " after its collision with the " \o x.m2_desc \o ".",
          "The " \o x.am_desc \o " is present.",
          "None.">>
    ELSE IF s = ADD_TWO_MOVING /\ DescIsSet(x.am1_desc) /\ DescIsSet(x.am2_desc) THEN
        <<"The " \o x.m1_desc \o " moves toward the " \o x.s_desc \o
              " before its collision with the " \o x.m2_desc \o ".",
          "The " \o x.m2_desc \o " collides with the " \o x.m1_desc \o ".",
          "The " \o x.m1_desc \o " moves toward the " \o x.s_desc \o
              " after its collision with the " \o x.m2_desc \o ".",
          "The " \o x.am1_desc \o " is present.",
          "The " \o x.am2_desc \o " is present.",
          "None.">>
    ELSE <<>>

\* the option strings each definition of actual cause designates
SwitchActualCauseMapping(x) ==
    [HP |-> <<"The " \o x.m2_desc \o " collides with the " \o x.m1_desc \o ".",
            "The " \o x.m1_desc \o " moves toward the " \o x.s_desc \o
                " after its collision with the " \o x.m2_desc \o ".">>,
     BV |-> <<"The " \o x.m1_desc \o " moves toward the " \o x.s_desc \o
                " after its collision with the " \o x.m2_desc \o ".">>,
     DBV |-> <<"The " \o x.m1_desc \o " moves toward the " \o x.s_desc \o
                 " after its collision with the " \o x.m2_desc \o ".">>,
     Boc |-> <<"The " \o x.m2_desc \o " collides with the " \o x.m1_desc \o ".",
             "The " \o x.m1_desc \o " moves toward the " \o x.s_desc \o
                 " after its collision with the " \o x.m2_desc \o ".">>]

\* qa_pairs of generate_qa_templates, in the order of the appends, for
\* the two shuffled option lists
SwitchQAPairs(x, attribution_options, actual_cause_options) ==
    <<[question |-> "Does the " \o x.m1_desc \o "'s motion toward the " \o
                          x.s_desc \o " before its collision with the " \o
                          x.m2_desc \o " affect the " \o x.s_desc \o "'s motion?",
          answer |-> "Yes",
          question_type |-> "causality_identification",
          question_rung |-> "discovery",
          answer_type |-> "yes_no"],
      [question |-> "Does the " \o x.m2_desc \o "'s collision with the " \o
                          x.m1_desc \o " affect the " \o x.s_desc \o "'s motion?",
          answer |-> "No",
          question_type |-> "causality_identification",
          question_rung |-> "discovery",
          answer_type |-> "yes_no"],
      [question |-> "Does the " \o x.m1_desc \o "'s motion toward the " \o
                          x.s_desc \o " after its collision with the " \o
                          x.m2_desc \o " affect the " \o x.s_desc \o "'s motion?",
          answer |-> "Yes",
          question_type |-> "causality_identification",
          question_rung |-> "discovery",
          answer_type |-> "yes_no"],
      [question |-> "Why did the " \o x.s_desc \o " move?",
          answer |-> AnswerIndices(attribution_options, SwitchAttributionCorrect(x)),
          question_type |-> "causal_attribution",
          question_rung |-> "discovery",
          answer_type |-> "multi_choice",
          options |-> attribution_options],
      [question |-> "If we force the " \o x.m1_desc \o
                          " not to move toward the " \o x.s_desc \o
                          " after its collision with the " \o x.m2_desc \o
                          ", will the " \o x.m1_desc \o " cause the " \o
                          x.s_desc \o " to move?",
          answer |-> "No",
          question_type |-> "individual_causal_effect",
          question_rung |-> "intervention",
          answer_type |-> "yes_no"],
      [question |-> "If we force the " \o x.m2_desc \o
                          " not to collide with the " \o x.m1_desc \o
                          ", will the " \o x.m1_desc \o " cause the " \o
                          x.s_desc \o " to move?",
          answer |-> "Yes",
          question_type |-> "individual_causal_effect",
          question_rung |-> "intervention",
          answer_type |-> "yes_no"],
      [question |-> "If the " \o x.m1_desc \o " had not moved toward the " \o
                          x.s_desc \o " after its collision with the " \o
                          x.m2_desc \o ", would the " \o x.s_desc \o
                          " still have moved?",
          answer |-> "No",
          question_type |-> "counterfactual_reasoning",
          question_rung |-> "counterfactual",
          answer_type |-> "yes_no"],
      [question |-> "If the " \o x.m2_desc \o
                          " had not collided with the " \o x.m1_desc \o
                          ", would the " \o x.s_desc \o " still have moved?",
          answer |-> "Yes",
          question_type |-> "counterfactual_reasoning",
          question_rung |-> "counterfactual",
          answer_type |-> "yes_no"],
      [question |-> "Was the fact that the " \o x.m1_desc \o
                          " moved toward the " \o x.s_desc \o
                          " before its collision with the " \o x.m2_desc \o
                          " sufficient for the " \o x.s_desc \o " to move?",
          answer |-> "Yes",
          question_type |-> "sufficient_cause",
          question_rung |-> "counterfactual",
          answer_type |-> "yes_no"],
      [question |-> "Was the fact that the " \o x.m2_desc \o
                          " collided with the " \o x.m1_desc \o
                          " sufficient for the " \o x.s_desc \o " to move?",
          answer |-> "No",
          question_type |-> "sufficient_cause",
          question_rung |-> "counterfactual",
          answer_type |-> "yes_no"],
      [question |-> "Was the fact that the " \o x.m1_desc \o
                          " moved toward the " \o x.s_desc \o
                          " after its collision with the " \o x.m2_desc \o
                          " sufficient for the " \o x.s_desc \o " to move?",
          answer |-> "Yes",
          question_type |-> "sufficient_cause",
          question_rung |-> "counterfactual",
          answer_type |-> "yes_no"],
      [question |-> "Was the fact that the " \o x.m1_desc \o
                          " moved toward the " \o x.s_desc \o
                          " before its collision with the " \o x.m2_desc \o
                          " necessary for the " \o x.s_desc \o " to move?",
          answer |-> "No",
          question_type |-> "necessary_cause",
          question_rung |-> "counterfactual",
          answer_type |-> "yes_no"],
      [question |-> "Was the fact that the " \o x.m2_desc \o
                          " collided with the " \o x.m1_desc \o
                          " necessary for the " \o x.s_desc \o " to move?",
          answer |-> "No",
          question_type |-> "necessary_cause",
          question_rung |-> "counterfactual",
          answer_type |-> "yes_no"],
      [question |-> "Was the fact that the " \o x.m1_desc \o
                          " moved toward the " \o x.s_desc \o
                          " after its collision with the " \o x.m2_desc \o
                          " necessary for the " \o x.s_desc \o " to move?",
          answer |-> "Yes",
          question_type |-> "necessary_cause",
          question_rung |-> "counterfactual",
          answer_type |-> "yes_no"],
      [question |-> "What is the actual cause of the " \o x.s_desc \o
                          " moving?",
          answer |-> AnswerByDefinition(actual_cause_options, SwitchActualCauseMapping(x)),
          question_type |-> "actual_cause",
          question_rung |-> "counterfactual",
          answer_type |-> "multi_choice",
          options |-> actual_cause_options],
      [question |-> "Was the fact that the " \o x.m1_desc \o
                          " moved toward the " \o x.s_desc \o
                          " before its collision with the " \o x.m2_desc \o
                          " responsible for the " \o x.s_desc \o " moving?",
          answer |-> "No",
          question_type |-> "responsibility",
          question_rung |-> "counterfactual",
          answer_type |-> "yes_no"],
      [question |-> "Was the fact that the " \o x.m2_desc \o
                          " collided with the " \o x.m1_desc \o
                          " responsible for the " \o x.s_desc \o " moving?",
          answer |-> "No",
          question_type |-> "responsibility",
          question_rung |-> "counterfactual",
          answer_type |-> "yes_no"],
      [question |-> "Was the fact that the " \o x.m1_desc \o
                          " moved toward the " \o x.s_desc \o
                          " after its collision with the " \o x.m2_desc \o
                          " responsible for the " \o x.s_desc \o " moving?",
          answer |-> "Yes",
          question_type |-> "responsibility",
          question_rung |-> "counterfactual",
          answer_type |-> "yes_no"]>>

\* the early return of generate_cr_templates: both models None
SwitchCRRolesMissing(a) ==
    a.M1 = None \/ a.M2 = None \/ a.S = None

\* causal_graph of generate_cr_templates: the variables of the scenario,
\* extended by the indicator variables of the distractors, and the edges
SwitchCausalGraph(x, s) ==
    LET variables ==
            ("Z" :> "The " \o x.m2_desc \o "'s collision with the " \o
                        x.m1_desc)
            @@ ("X1" :> "The " \o x.m1_desc \o "'s motion toward the " \o
                        x.s_desc \o " with colliding with the " \o x.m2_desc)
            @@ ("X2" :> "The " \o x.m1_desc \o "'s motion toward the " \o
                        x.s_desc \o " without colliding with the " \o x.m2_desc)
            @@ ("Y" :> "The " \o x.s_desc \o "'s motion")
        edges == <<"Z -> X1",
                   "Z -> X2",
                   "X1 -> Y",
                   "X2 -> Y">>
    IN  [variables |->
             IF s = ADD_ONE_STATIC /\ DescIsSet(x.as_desc)
             THEN ("S" :> "The " \o x.as_desc \o "'s presence")
                  @@ variables
             ELSE IF s = ADD_TWO_STATIC /\ DescIsSet(x.as1_desc) /\ DescIsSet(x.as2_desc)
             THEN ("S1" :> "The " \o x.as1_desc \o "'s presence")
                  @@ ("S2" :> "The " \o x.as2_desc \o "'s presence")
                  @@ variables
             ELSE IF s = ADD_ONE_MOVING /\ DescIsSet(x.am_desc)
             THEN ("M" :> "The " \o x.am_desc \o "'s presence")
                  @@ variables
             ELSE IF s = ADD_TWO_MOVING /\ DescIsSet(x.am1_desc) /\ DescIsSet(x.am2_desc)
             THEN ("M1" :> "The " \o x.am1_desc \o "'s presence")
                  @@ ("M2" :> "The " \o x.am2_desc \o "'s presence")
                  @@ variables
             ELSE variables,
         edges |-> edges]

\* twin_network of generate_cr_templates: the factual world and the
\* counterfactual worlds, each extended by the distractors' assignments
SwitchTwinNetwork(x, s) ==
    LET factual_world == "Z=1, X1=1, X2=0, Y=1"
        counterfactual_world ==
            ("do(Z=0)" :> "X1=0, X2=1, Y=1")
        Extended(factual_suffix, suffix) ==
            [factual_world |-> factual_world \o factual_suffix,
             counterfactual_world |->
                 [w \in DOMAIN counterfactual_world |->
                     counterfactual_world[w] \o suffix[w]]]
    IN  IF s = ADD_ONE_STATIC /\ DescIsSet(x.as_desc)
        THEN Extended(", S=1",
                      ("do(Z=0)" :> ", S=1"))
        ELSE IF s = ADD_TWO_STATIC /\ DescIsSet(x.as1_desc) /\ DescIsSet(x.as2_desc)
        THEN Extended(", S1=1, S2=1",
                      ("do(Z=0)" :> ", S1=1, S2=1"))
        ELSE IF s = ADD_ONE_MOVING /\ DescIsSet(x.am_desc)
        THEN Extended(", M=1",
                      ("do(Z=0)" :> ", M=1"))
        ELSE IF s = ADD_TWO_MOVING /\ DescIsSet(x.am1_desc) /\ DescIsSet(x.am2_desc)
        THEN Extended(", M1=1, M2=1",
                      ("do(Z=0)" :> ", M1=1, M2=1"))
        ELSE [factual_world |-> factual_world,
              counterfactual_world |-> counterfactual_world]

-----------------------------------------------------------------------------
(* Late-preemption synthesizer and encoder, late.py *)

\* the early return of generate_qa_templates: `return []`
LateQARolesMissing(a) ==
    a.M1 = None \/ a.S = None

\* the description variables of generate_qa_templates
LateDescriptions(d, a, s) ==
    LET distractors == DistractorDescriptions(d, a, s)
    IN  [
         m1_desc |-> GetObjectDescription(a.M1, d.object_property),
         s_desc |-> GetObjectDescription(a.S, d.object_property),
         m2_desc |-> IF Truthy(a.M2) THEN GetObjectDescription(a.M2, d.object_property) ELSE "another object",
         as_desc |-> distractors.as_desc,
         as1_desc |-> distractors.as1_desc,
         as2_desc |-> distractors.as2_desc,
         am_desc |-> distractors.am_desc,
         am1_desc |-> distractors.am1_desc,
         am2_desc |-> distractors.am2_desc]

\* the pre-shuffle option list of the causal_attribution question
LateAttributionOptions(x, s) ==
    IF ~SettingIsSet(s) THEN
        <<"Because the " \o x.m1_desc \o " moved toward the " \o x.s_desc \o
              ".",
          "Because the " \o x.m2_desc \o " moved toward the " \o x.s_desc \o
              ".",
          "Because the " \o x.s_desc \o " moved spontaneously.">>
    ELSE IF s = ADD_ONE_STATIC /\ DescIsSet(x.as_desc) THEN
        <<"Because the " \o x.m1_desc \o " moved toward the " \o x.s_desc \o
              ".",
          "Because the " \o x.m2_desc \o " moved toward the " \o x.s_desc \o
              ".",
          "Because the " \o x.as_desc \o " was present.",
          "Because the " \o x.s_desc \o " moved spontaneously.">>
    ELSE IF s = ADD_TWO_STATIC /\ DescIsSet(x.as1_desc) /\ DescIsSet(x.as2_desc) THEN
        <<"Because the " \o x.m1_desc \o " moved toward the " \o x.s_desc \o
              ".",
          "Because the " \o x.m2_desc \o " moved toward the " \o x.s_desc \o
              ".",
          "Because the " \o x.as1_desc \o " was present.",
          "Because the " \o x.as2_desc \o " was present.",
          "Because the " \o x.s_desc \o " moved spontaneously.">>
    ELSE IF s = ADD_ONE_MOVING /\ DescIsSet(x.am_desc) THEN
        <<"Because the " \o x.m1_desc \o " moved toward the " \o x.s_desc \o
              ".",
          "Because the " \o x.m2_desc \o " moved toward the " \o x.s_desc \o
              ".",
          "Because the " \o x.am_desc \o " was present.",
          "Because the " \o x.s_desc \o " moved spontaneously.">>
    ELSE IF s = ADD_TWO_MOVING /\ DescIsSet(x.am1_desc) /\ DescIsSet(x.am2_desc) THEN
        <<"Because the " \o x.m1_desc \o " moved toward the " \o x.s_desc \o
              ".",
          "Because the " \o x.m2_desc \o " moved toward the " \o x.s_desc \o
              ".",
          "Because the " \o x.am1_desc \o " was present.",
          "Because the " \o x.am2_desc \o " was present.",
          "Because the " \o x.s_desc \o " moved spontaneously.">>
    ELSE <<>>

\* correct_answers of the causal_attribution question
LateAttributionCorrect(x) ==
    <<"Because the " \o x.m1_desc \o " moved toward the " \o x.s_desc \o ".">>

\* the pre-shuffle option list of the actual_cause question
LateActualCauseOptions(x, s) ==
    IF ~SettingIsSet(s) THEN
        <<"The " \o x.m1_desc \o " moves toward the " \o x.s_desc \o ".",
          "The " \o x.m2_desc \o " moves toward the " \o x.s_desc \o ".",
          "The " \o x.m1_desc \o " collides with the " \o x.s_desc \o ".",
          "The " \o x.m2_desc \o " collides with the " \o x.s_desc \o ".",
          "None.">>
    ELSE IF s = ADD_ONE_STATIC /\ DescIsSet(x.as_desc) THEN
        <<"The " \o x.m1_desc \o " moves toward the " \o x.s_desc \o ".",
          "The " \o x.m2_desc \o " moves toward the " \o x.s_desc \o ".",
          "The " \o x.m1_desc \o " collides with the " \o x.s_desc \o ".",
          "The " \o x.m2_desc \o " collides with the " \o x.s_desc \o ".",
          "The " \o x.as_desc \o " is present.",
          "None.">>
    ELSE IF s = ADD_TWO_STATIC /\ DescIsSet(x.as1_desc) /\ DescIsSet(x.as2_desc) THEN
        <<"The " \o x.m1_desc \o " moves toward the " \o x.s_desc \o ".",
          "The " \o x.m2_desc \o " moves toward the " \o x.s_desc \o ".",
          "The " \o x.m1_desc \o " collides with the " \o x.s_desc \o ".",
          "The " \o x.m2_desc \o " collides with the " \o x.s_desc \o ".",
          "The " \o x.as1_desc \o " is present.",
          "The " \o x.as2_desc \o " is present.",
          "None.">>
    ELSE IF s = ADD_ONE_MOVING /\ DescIsSet(x.am_desc) THEN
        <<"The " \o x.m1_desc \o " moves toward the " \o x.s_desc \o ".",
          "The " \o x.m2_desc \o " moves toward the " \o x.s_desc \o ".",
          "The " \o x.m1_desc \o " collides with the " \o x.s_desc \o ".",
          "The " \o x.m2_desc \o " collides with the " \o x.s_desc \o ".",
          "The " \o x.am_desc \o " is present.",
          "None.">>
    ELSE IF s = ADD_TWO_MOVING /\ DescIsSet(x.am1_desc) /\ DescIsSet(x.am2_desc) THEN
        <<"The " \o x.m1_desc \o " moves toward the " \o x.s_desc \o ".",
          "The " \o x.m2_desc \o " moves toward the " \o x.s_desc \o ".",
          "The " \o x.m1_desc \o " collides with the " \o x.s_desc \o ".",
          "The " \o x.m2_desc \o " collides with the " \o x.s_desc \o ".",
          "The " \o x.am1_desc \o " is present.",
          "The " \o x.am2_desc \o " is present.",
          "None.">>
    ELSE <<>>

\* the option strings each definition of actual cause designates
LateActualCauseMapping(x) ==
    [HP |-> <<"The " \o x.m1_desc \o " moves toward the " \o x.s_desc \o ".",
            "The " \o x.m1_desc \o " collides with the " \o x.s_desc \o ".">>,
     BV |-> <<"The " \o x.m1_desc \o " moves toward the " \o x.s_desc \o ".",
            "The " \o x.m1_desc \o " collides with the " \o x.s_desc \o ".">>,
     DBV |-> <<"The " \o x.m1_desc \o " moves toward the " \o x.s_desc \o ".",
             "The " \o x.m1_desc \o " collides with the " \o x.s_desc \o ".">>,
     Boc |-> <<"The " \o x.m1_desc \o " moves toward the " \o x.s_desc \o ".",
             "The " \o x.m1_desc \o " collides with the " \o x.s_desc \o ".">>]

\* qa_pairs of generate_qa_templates, in the order of the appends, for
\* the two shuffled option lists
LateQAPairs(x, attribution_options, actual_cause_options) ==
    <<[question |-> "Does the " \o x.m1_desc \o "'s collision with the " \o
                          x.s_desc \o " affect the " \o x.s_desc \o "'s motion?",
          answer |-> "Yes",
          question_type |-> "causality_identification",
          question_rung |-> "discovery",
          answer_type |-> "yes_no"],
      [question |-> "Does the " \o x.m2_desc \o "'s collision with the " \o
                          x.s_desc \o " affect the " \o x.s_desc \o "'s motion?",
          answer |-> "Yes",
          question_type |-> "causality_identification",
          question_rung |-> "discovery",
          answer_type |-> "yes_no"],
      [question |-> "Does the " \o x.m1_desc \o "'s collision with the " \o
                          x.s_desc \o " affect the " \o x.m2_desc \o
                          "'s collision with the " \o x.s_desc \o "?",
          answer |-> "Yes",
          question_type |-> "causality_identification",
          question_rung |-> "discovery",
          answer_type |-> "yes_no"],
      [question |-> "Why did the " \o x.s_desc \o " move?",
          answer |-> AnswerIndices(attribution_options, LateAttributionCorrect(x)),
          question_type |-> "causal_attribution",
          question_rung |-> "discovery",
          answer_type |-> "multi_choice",
          options |-> attribution_options],
      [question |-> "If we force the " \o x.m1_desc \o
                          " not to move toward the " \o x.s_desc \o
                          ", will the " \o x.m2_desc \o " cause the " \o
                          x.s_desc \o " to move?",
          answer |-> "Yes",
          question_type |-> "individual_causal_effect",
          question_rung |-> "intervention",
          answer_type |-> "yes_no"],
      [question |-> "If we force the " \o x.m2_desc \o
                          " not to move toward the " \o x.s_desc \o
                          ", will the " \o x.m1_desc \o " cause the " \o
                          x.s_desc \o " to move?",
          answer |-> "Yes",
          question_type |-> "individual_causal_effect",
          question_rung |-> "intervention",
          answer_type |-> "yes_no"],
      [question |-> "If the " \o x.m1_desc \o " had not moved toward the " \o
                          x.s_desc \o ", would the " \o x.s_desc \o
                          " still have moved?",
          answer |-> "Yes",
          question_type |-> "counterfactual_reasoning",
          question_rung |-> "counterfactual",
          answer_type |-> "yes_no"],
      [question |-> "If the " \o x.m2_desc \o " had not moved toward the " \o
                          x.s_desc \o ", would the " \o x.s_desc \o
                          " still have moved?",
          answer |-> "Yes",
          question_type |-> "counterfactual_reasoning",
          question_rung |-> "counterfactual",
          answer_type |-> "yes_no"],
      [question |-> "Was the fact that the " \o x.m1_desc \o
                          " moved toward the " \o x.s_desc \o
                          " sufficient for the " \o x.s_desc \o " to move?",
          answer |-> "Yes",
          question_type |-> "sufficient_cause",
          question_rung |-> "counterfactual",
          answer_type |-> "yes_no"],
      [question |-> "Was the fact that the " \o x.m2_desc \o
                          " moved toward the " \o x.s_desc \o
                          " sufficient for the " \o x.s_desc \o " to move?",
          answer |-> "Yes",
          question_type |-> "sufficient_cause",
          question_rung |-> "counterfactual",
          answer_type |-> "yes_no"],
      [question |-> "Was the fact that the " \o x.m1_desc \o
                          " moved toward the " \o x.s_desc \o
                          " necessary for the " \o x.s_desc \o " to move?",
          answer |-> "No",
          question_type |-> "necessary_cause",
          question_rung |-> "counterfactual",
          answer_type |-> "yes_no"],
      [question |-> "Was the fact that the " \o x.m2_desc \o
                          " moved toward the " \o x.s_desc \o
                          " necessary for the " \o x.s_desc \o " to move?",
          answer |-> "No",
          question_type |-> "necessary_cause",
          question_rung |-> "counterfactual",
          answer_type |-> "yes_no"],
      [question |-> "What is the actual cause of the " \o x.s_desc \o
                          " moving?",
          answer |-> AnswerByDefinition(actual_cause_options, LateActualCauseMapping(x)),
          question_type |-> "actual_cause",
          question_rung |-> "counterfactual",
          answer_type |-> "multi_choice",
          options |-> actual_cause_options],
      [question |-> "Was the fact that the " \o x.m1_desc \o
                          " moved toward the " \o x.s_desc \o
                          " responsible for the " \o x.s_desc \o " moving?",
          answer |-> "Yes",
          question_type |-> "responsibility",
          question_rung |-> "counterfactual",
          answer_type |-> "yes_no"],
      [question |-> "Was the fact that the " \o x.m2_desc \o
                          " moved toward the " \o x.s_desc \o
                          " responsible for the " \o x.s_desc \o " moving?",
          answer |-> "No",
          question_type |-> "responsibility",
          question_rung |-> "counterfactual",
          answer_type |-> "yes_no"]>>

\* the early return of generate_cr_templates: both models None
LateCRRolesMissing(a) ==
    a.M1 = None \/ a.S = None

\* causal_graph of generate_cr_templates: the variables of the scenario,
\* extended by the indicator variables of the distractors, and the edges
LateCausalGraph(x, s) ==
    LET variables ==
            ("X1" :> "The " \o x.m1_desc \o "'s motion toward the " \o x.s_desc)
            @@ ("X2" :> "The " \o x.m2_desc \o "'s motion toward the " \o x.s_desc)
            @@ ("Z1" :> "The " \o x.m1_desc \o "'s collision with the " \o
                        x.s_desc)
            @@ ("Z2" :> "The " \o x.m2_desc \o "'s collision with the " \o
                        x.s_desc)
            @@ ("Y" :> "The " \o x.s_desc \o "'s motion")
        edges == <<"X1 -> Z1",
                   "X2 -> Z2",
                   "Z1 -> Z2",
                   "Z1 -> Y",
                   "Z2 -> Y">>
    IN  [variables |->
             IF s = ADD_ONE_STATIC /\ DescIsSet(x.as_desc)
             THEN ("S" :> "The " \o x.as_desc \o "'s presence")
                  @@ variables
             ELSE IF s = ADD_TWO_STATIC /\ DescIsSet(x.as1_desc) /\ DescIsSet(x.as2_desc)
             THEN ("S1" :> "The " \o x.as1_desc \o "'s presence")
                  @@ ("S2" :> "The " \o x.as2_desc \o "'s presence")
                  @@ variables
             ELSE IF s = ADD_ONE_MOVING /\ DescIsSet(x.am_desc)
             THEN ("M" :> "The " \o x.am_desc \o "'s presence")
                  @@ variables
             ELSE IF s = ADD_TWO_MOVING /\ DescIsSet(x.am1_desc) /\ DescIsSet(x.am2_desc)
             THEN ("M1" :> "The " \o x.am1_desc \o "'s presence")
                  @@ ("M2" :> "The " \o x.am2_desc \o "'s presence")
                  @@ variables
             ELSE variables,
         edges |-> edges]

\* twin_network of generate_cr_templates: the factual world and the
\* counterfactual worlds, each extended by the distractors' assignments
LateTwinNetwork(x, s) ==
    LET factual_world == "X1=1, X2=1, Z1=1, Z2=0, Y=1"
        counterfactual_world ==
            ("do(X1=0)" :> "X2=1, Z1=0, Z2=1, Y=1")
            @@ ("do(X2=0)" :> "X1=1, Z1=1, Z2=0, Y=1")
        Extended(factual_suffix, suffix) ==
            [factual_world |-> factual_world \o factual_suffix,
             counterfactual_world |->
                 [w \in DOMAIN counterfactual_world |->
                     counterfactual_world[w] \o suffix[w]]]
    IN  IF s = ADD_ONE_STATIC /\ DescIsSet(x.as_desc)
        THEN Extended(", S=1",
                      ("do(X1=0)" :> ", S=1")
                      @@ ("do(X2=0)" :> ", S=1"))
        ELSE IF s = ADD_TWO_STATIC /\ DescIsSet(x.as1_desc) /\ DescIsSet(x.as2_desc)
        THEN Extended(", S1=1, S2=1",
                      ("do(X1=0)" :> ", S1=1, S2=1")
                      @@ ("do(X2=0)" :> ", S1=1, S2=1"))
        ELSE IF s = ADD_ONE_MOVING /\ DescIsSet(x.am_desc)
        THEN Extended(", M=1",
                      ("do(X1=0)" :> ", M=1")
                      @@ ("do(X2=0)" :> ", M=1"))
        ELSE IF s = ADD_TWO_MOVING /\ DescIsSet(x.am1_desc) /\ DescIsSet(x.am2_desc)
        THEN Extended(", M1=1, M2=1",
                      ("do(X1=0)" :> ", M1=1, M2=1")
                      @@ ("do(X2=0)" :> ", M1=1, M2=1"))
        ELSE [factual_world |-> factual_world,
              counterfactual_world |-> counterfactual_world]

-----------------------------------------------------------------------------
(* Early-preemption synthesizer and encoder, early.py *)

\* the early return of generate_qa_templates: `return []`
EarlyQARolesMissing(a) ==
    a.M1 = None \/ a.M2 = None \/ a.S1 = None \/ a.S2 = None

\* the description variables of generate_qa_templates
EarlyDescriptions(d, a, s) ==
    LET distractors == DistractorDescriptions(d, a, s)
    IN  [
         m1_desc |-> GetObjectDescription(a.M1, d.object_property),
         m2_desc |-> GetObjectDescription(a.M2, d.object_property),
         s1_desc |-> GetObjectDescription(a.S1, d.object_property),
         s2_desc |-> GetObjectDescription(a.S2, d.object_property),
         as_desc |-> distractors.as_desc,
         as1_desc |-> distractors.as1_desc,
         as2_desc |-> distractors.as2_desc,
         am_desc |-> distractors.am_desc,
         am1_desc |-> distractors.am1_desc,
         am2_desc |-> distractors.am2_desc]

\* the pre-shuffle option list of the causal_attribution question
EarlyAttributionOptions(x, s) ==
    IF ~SettingIsSet(s) THEN
        <<"Because the " \o x.m1_desc \o " moved toward the " \o x.s1_desc \o
              ".",
          "Because the " \o x.s2_desc \o " moved toward the " \o x.s1_desc \o
              ".",
          "Because the " \o x.s1_desc \o " moved spontaneously.">>
    ELSE IF s = ADD_ONE_STATIC /\ DescIsSet(x.as_desc) THEN
        <<"Because the " \o x.m1_desc \o " moved toward the " \o x.s1_desc \o
              ".",
          "Because the " \o x.s2_desc \o " moved toward the " \o x.s1_desc \o
              ".",
          "Because the " \o x.as_desc \o " was present.",
          "Because the " \o x.s1_desc \o " moved spontaneously.">>
    ELSE IF s = ADD_TWO_STATIC /\ DescIsSet(x.as1_desc) /\ DescIsSet(x.as2_desc) THEN
        <<"Because the " \o x.m1_desc \o " moved toward the " \o x.s1_desc \o
              ".",
          "Because the " \o x.s2_desc \o " moved toward the " \o x.s1_desc \o
              ".",
          "Because the " \o x.as1_desc \o " was present.",
          "Because the " \o x.as2_desc \o " was present.",
          "Because the " \o x.s1_desc \o " moved spontaneously.">>
    ELSE IF s = ADD_ONE_MOVING /\ DescIsSet(x.am_desc) THEN
        <<"Because the " \o x.m1_desc \o " moved toward the " \o x.s1_desc \o
              ".",
          "Because the " \o x.s2_desc \o " moved toward the " \o x.s1_desc \o
              ".",
          "Because the " \o x.am_desc \o " was present.",
          "Because the " \o x.s1_desc \o " moved spontaneously.">>
    ELSE IF s = ADD_TWO_MOVING /\ DescIsSet(x.am1_desc) /\ DescIsSet(x.am2_desc) THEN
        <<"Because the " \o x.m1_desc \o " moved toward the " \o x.s1_desc \o
              ".",
          "Because the " \o x.s2_desc \o " moved toward the " \o x.s1_desc \o
              ".",
          "Because the " \o x.am1_desc \o " was present.",
          "Because the " \o x.am2_desc \o " was present.",
          "Because the " \o x.s1_desc \o " moved spontaneously.">>
    ELSE <<>>

\* correct_answers of the causal_attribution question
EarlyAttributionCorrect(x) ==
    <<"Because the " \o x.m1_desc \o " moved toward the " \o x.s1_desc \o ".">>

\* the pre-shuffle option list of the actual_cause question
EarlyActualCauseOptions(x, s) ==
    IF ~SettingIsSet(s) THEN
        <<"The " \o x.m1_desc \o " moves toward the " \o x.s1_desc \o ".",
          "The " \o x.s2_desc \o " moves toward the " \o x.s1_desc \o ".",
          "None.">>
    ELSE IF s = ADD_ONE_STATIC /\ DescIsSet(x.as_desc) THEN
        <<"The " \o x.m1_desc \o " moves toward the " \o x.s1_desc \o ".",
          "The " \o x.s2_desc \o " moves toward the " \o x.s1_desc \o ".",
          "The " \o x.as_desc \o " is present.",
          "None.">>
    ELSE IF s = ADD_TWO_STATIC /\ DescIsSet(x.as1_desc) /\ DescIsSet(x.as2_desc) THEN
        <<"The " \o x.m1_desc \o " moves toward the " \o x.s1_desc \o ".",
          "The " \o x.s2_desc \o " moves toward the " \o x.s1_desc \o ".",
          "The " \o x.as1_desc \o " is present.",
          "The " \o x.as2_desc \o " is present.",
          "None.">>
    ELSE IF s = ADD_ONE_MOVING /\ DescIsSet(x.am_desc) THEN
        <<"The " \o x.m1_desc \o " moves toward the " \o x.s1_desc \o ".",
          "The " \o x.s2_desc \o " moves toward the " \o x.s1_desc \o ".",
          "The " \o x.am_desc \o " is present.",
          "None.">>
    ELSE IF s = ADD_TWO_MOVING /\ DescIsSet(x.am1_desc) /\ DescIsSet(x.am2_desc) THEN
        <<"The " \o x.m1_desc \o " moves toward the " \o x.s1_desc \o ".",
          "The " \o x.s2_desc \o " moves toward the " \o x.s1_desc \o ".",
          "The " \o x.am1_desc \o " is present.",
          "The " \o x.am2_desc \o " is present.",
          "None.">>
    ELSE <<>>

\* the option strings each definition of actual cause designates
EarlyActualCauseMapping(x) ==
    [HP |-> <<"The " \o x.m1_desc \o " moves toward the " \o x.s1_desc \o ".">>,
     BV |-> <<"None.">>,
     DBV |-> <<"The " \o x.m1_desc \o " moves toward the " \o x.s1_desc \o ".">>,
     Boc |-> <<"The " \o x.m1_desc \o " moves toward the " \o x.s1_desc \o ".">>]

\* qa_pairs of generate_qa_templates, in the order of the appends, for
\* the two shuffled option lists
EarlyQAPairs(x, attribution_options, actual_cause_options) ==
    <<[question |-> "Does the " \o x.m1_desc \o "'s motion toward the " \o
                          x.s1_desc \o " affect the " \o x.s1_desc \o "'s motion?",
          answer |-> "Yes",
          question_type |-> "causality_identification",
          question_rung |-> "discovery",
          answer_type |-> "yes_no"],
      [question |-> "Does the " \o x.s2_desc \o "'s motion toward the " \o
                          x.s1_desc \o " affect the " \o x.s1_desc \o "'s motion?",
          answer |-> "Yes",
          question_type |-> "causality_identification",
          question_rung |-> "discovery",
          answer_type |-> "yes_no"],
      [question |-> "Why did the " \o x.s1_desc \o " move?",
          answer |-> AnswerIndices(attribution_options, EarlyAttributionCorrect(x)),
          question_type |-> "causal_attribution",
          question_rung |-> "discovery",
          answer_type |-> "multi_choice",
          options |-> attribution_options],
      [question |-> "If we force the " \o x.m1_desc \o
                          " not to move toward the " \o x.s1_desc \o
                          ", will the " \o x.s2_desc \o " cause the " \o
                          x.s1_desc \o " to move?",
          answer |-> "Yes",
          question_type |-> "individual_causal_effect",
          question_rung |-> "intervention",
          answer_type |-> "yes_no"],
      [question |-> "If we force the " \o x.s2_desc \o
                          " not to move toward the " \o x.s1_desc \o
                          ", will the " \o x.m1_desc \o " cause the " \o
                          x.s1_desc \o " to move?",
          answer |-> "Yes",
          question_type |-> "individual_causal_effect",
          question_rung |-> "intervention",
          answer_type |-> "yes_no"],
      [question |-> "If the " \o x.m1_desc \o " had not moved toward the " \o
                          x.s1_desc \o ", would the " \o x.s1_desc \o
                          " still have moved?",
          answer |-> "Yes",
          question_type |-> "counterfactual_reasoning",
          question_rung |-> "counterfactual",
          answer_type |-> "yes_no"],
      [question |-> "If the " \o x.s2_desc \o " had not moved toward the " \o
                          x.s1_desc \o ", would the " \o x.s1_desc \o
                          " still have moved?",
          answer |-> "Yes",
          question_type |-> "counterfactual_reasoning",
          question_rung |-> "counterfactual",
          answer_type |-> "yes_no"],
      [question |-> "Was the fact that the " \o x.m1_desc \o
                          " moved toward the " \o x.s1_desc \o
                          " sufficient for the " \o x.s1_desc \o " to move?",
          answer |-> "Yes",
          question_type |-> "sufficient_cause",
          question_rung |-> "counterfactual",
          answer_type |-> "yes_no"],
      [question |-> "Was the fact that the " \o x.s2_desc \o
                          " moved toward the " \o x.s1_desc \o
                          " sufficient for the " \o x.s1_desc \o " to move?",
          answer |-> "Yes",
          question_type |-> "sufficient_cause",
          question_rung |-> "counterfactual",
          answer_type |-> "yes_no"],
      [question |-> "Was the fact that the " \o x.m1_desc \o
                          " moved toward the " \o x.s1_desc \o
                          " necessary for the " \o x.s1_desc \o " to move?",
          answer |-> "No",
          question_type |-> "necessary_cause",
          question_rung |-> "counterfactual",
          answer_type |-> "yes_no"],
      [question |-> "Was the fact that the " \o x.s2_desc \o
                          " moved toward the " \o x.s1_desc \o
                          " necessary for the " \o x.s1_desc \o " to move?",
          answer |-> "No",
          question_type |-> "necessary_cause",
          question_rung |-> "counterfactual",
          answer_type |-> "yes_no"],
      [question |-> "What is the actual cause of the " \o x.s1_desc \o
                          " moving?",
          answer |-> AnswerByDefinition(actual_cause_options, EarlyActualCauseMapping(x)),
          question_type |-> "actual_cause",
          question_rung |-> "counterfactual",
          answer_type |-> "multi_choice",
          options |-> actual_cause_options],
      [question |-> "Was the fact that the " \o x.m1_desc \o
                          " moved toward the " \o x.s1_desc \o
                          " responsible for the " \o x.s1_desc \o " moving?",
          answer |-> "Yes",
          question_type |-> "responsibility",
          question_rung |-> "counterfactual",
          answer_type |-> "yes_no"],
      [question |-> "Was the fact that the " \o x.s2_desc \o
                          " moved toward the " \o x.s1_desc \o
                          " responsible for the " \o x.s1_desc \o " moving?",
          answer |-> "No",
          question_type |-> "responsibility",
          question_rung |-> "counterfactual",
          answer_type |-> "yes_no"]>>

\* the early return of generate_cr_templates: both models None
EarlyCRRolesMissing(a) ==
    a.M1 = None \/ a.M2 = None \/ a.S1 = None \/ a.S2 = None

\* causal_graph of generate_cr_templates: the variables of the scenario,
\* extended by the indicator variables of the distractors, and the edges
EarlyCausalGraph(x, s) ==
    LET variables ==
            ("X1" :> "The " \o x.m1_desc \o "'s motion toward the " \o
                        x.s1_desc)
            @@ ("X2" :> "The " \o x.s2_desc \o "'s motion toward the " \o
                        x.s1_desc)
            @@ ("Y" :> "The " \o x.s1_desc \o "'s motion")
        edges == <<"X1 -> X2",
                   "X1 -> Y",
                   "X2 -> Y">>
    IN  [variables |->
             IF s = ADD_ONE_STATIC /\ DescIsSet(x.as_desc)
             THEN ("S" :> "The " \o x.as_desc \o "'s presence")
                  @@ variables
             ELSE IF s = ADD_TWO_STATIC /\ DescIsSet(x.as1_desc) /\ DescIsSet(x.as2_desc)
             THEN ("S1" :> "The " \o x.as1_desc \o "'s presence")
                  @@ ("S2" :> "The " \o x.as2_desc \o "'s presence")
                  @@ variables
             ELSE IF s = ADD_ONE_MOVING /\ DescIsSet(x.am_desc)
             THEN ("M" :> "The " \o x.am_desc \o "'s presence")
                  @@ variables
             ELSE IF s = ADD_TWO_MOVING /\ DescIsSet(x.am1_desc) /\ DescIsSet(x.am2_desc)
             THEN ("M1" :> "The " \o x.am1_desc \o "'s presence")
                  @@ ("M2" :> "The " \o x.am2_desc \o "'s presence")
                  @@ variables
             ELSE variables,
         edges |-> edges]

\* twin_network of generate_cr_templates: the factual world and the
\* counterfactual worlds, each extended by the distractors' assignments
EarlyTwinNetwork(x, s) ==
    LET factual_world == "X1=1, X2=0, Y=1"
        counterfactual_world ==
            ("do(X1=0)" :> "X2=1, Y=1")
        Extended(factual_suffix, suffix) ==
            [factual_world |-> factual_world \o factual_suffix,
             counterfactual_world |->
                 [w \in DOMAIN counterfactual_world |->
                     counterfactual_world[w] \o suffix[w]]]
    IN  IF s = ADD_ONE_STATIC /\ DescIsSet(x.as_desc)
        THEN Extended(", S=1",
                      ("do(X1=0)" :> ", S=1"))
        ELSE IF s = ADD_TWO_STATIC /\ DescIsSet(x.as1_desc) /\ DescIsSet(x.as2_desc)
        THEN Extended(", S1=1, S2=1",
                      ("do(X1=0)" :> ", S1=1, S2=1"))
        ELSE IF s = ADD_ONE_MOVING /\ DescIsSet(x.am_desc)
        THEN Extended(", M=1",
                      ("do(X1=0)" :> ", M=1"))
        ELSE IF s = ADD_TWO_MOVING /\ DescIsSet(x.am1_desc) /\ DescIsSet(x.am2_desc)
        THEN Extended(", M1=1, M2=1",
                      ("do(X1=0)" :> ", M1=1, M2=1"))
        ELSE [factual_world |-> factual_world,
              counterfactual_world |-> counterfactual_world]

-----------------------------------------------------------------------------
(* Double-prevention synthesizer and encoder, double.py *)

\* the early return of generate_qa_templates: `return []`
DoubleQARolesMissing(a) ==
    a.M1 = None \/ a.M2 = None \/ a.M3 = None \/ a.S = None

\* the description variables of generate_qa_templates
DoubleDescriptions(d, a, s) ==
    LET distractors == DistractorDescriptions(d, a, s)
    IN  [
         m1_desc |-> GetObjectDescription(a.M1, d.object_property),
         m2_desc |-> GetObjectDescription(a.M2, d.object_property),
         m3_desc |-> GetObjectDescription(a.M3, d.object_property),
         s_desc |-> GetObjectDescription(a.S, d.object_property),
         as_desc |-> distractors.as_desc,
         as1_desc |-> distractors.as1_desc,
         as2_desc |-> distractors.as2_desc,
         am_desc |-> distractors.am_desc,
         am1_desc |-> distractors.am1_desc,
         am2_desc |-> distractors.am2_desc]

\* the pre-shuffle option list of the causal_attribution question
DoubleAttributionOptions(x, s) ==
    IF ~SettingIsSet(s) THEN
        <<"Because the " \o x.m1_desc \o " collided with the " \o x.s_desc \o
              ".",
          "Because the " \o x.m2_desc \o " did not collide with the " \o
              x.m1_desc \o ".",
          "Because the " \o x.m3_desc \o " collided with the " \o x.m2_desc \o
              ".",
          "Because the " \o x.s_desc \o " moved spontaneously.">>
    ELSE IF s = ADD_ONE_STATIC /\ DescIsSet(x.as_desc) THEN
        <<"Because the " \o x.m1_desc \o " collided with the " \o x.s_desc \o
              ".",
          "Because the " \o x.m2_desc \o " did not collide with the " \o
              x.m1_desc \o ".",
          "Because the " \o x.m3_desc \o " collided with the " \o x.m2_desc \o
              ".",
          "Because the " \o x.as_desc \o " was present.",
          "Because the " \o x.s_desc \o " moved spontaneously.">>
    ELSE IF s = ADD_TWO_STATIC /\ DescIsSet(x.as1_desc) /\ DescIsSet(x.as2_desc) THEN
        <<"Because the " \o x.m1_desc \o " collided with the " \o x.s_desc \o
              ".",
          "Because the " \o x.m2_desc \o " did not collide with the " \o
              x.m1_desc \o ".",
          "Because the " \o x.m3_desc \o " collided with the " \o x.m2_desc \o
              ".",
          "Because the " \o x.as1_desc \o " was present.",
          "Because the " \o x.as2_desc \o " was present.",
          "Because the " \o x.s_desc \o " moved spontaneously.">>
    ELSE IF s = ADD_ONE_MOVING /\ DescIsSet(x.am_desc) THEN
        <<"Because the " \o x.m1_desc \o " collided with the " \o x.s_desc \o
              ".",
          "Because the " \o x.m2_desc \o " did not collide with the " \o
              x.m1_desc \o ".",
          "Because the " \o x.m3_desc \o " collided with the " \o x.m2_desc \o
              ".",
          "Because the " \o x.am_desc \o " was present.",
          "Because the " \o x.s_desc \o " moved spontaneously.">>
    ELSE IF s = ADD_TWO_MOVING /\ DescIsSet(x.am1_desc) /\ DescIsSet(x.am2_desc) THEN
        <<"Because the " \o x.m1_desc \o " collided with the " \o x.s_desc \o
              ".",
          "Because the " \o x.m2_desc \o " did not collide with the " \o
              x.m1_desc \o ".",
          "Because the " \o x.m3_desc \o " collided with the " \o x.m2_desc \o
              ".",
          "Because the " \o x.am1_desc \o " was present.",
          "Because the " \o x.am2_desc \o " was present.",
          "Because the " \o x.s_desc \o " moved spontaneously.">>
    ELSE <<>>

\* correct_answers of the causal_attribution question
DoubleAttributionCorrect(x) ==
    <<"Because the " \o x.m1_desc \o " collided with the " \o x.s_desc \o ".">>

\* the pre-shuffle option list of the actual_cause question
DoubleActualCauseOptions(x, s) ==
    IF ~SettingIsSet(s) THEN
        <<"The " \o x.m1_desc \o " moves toward the " \o x.s_desc \o ".",
          "The " \o x.m1_desc \o " collides with the " \o x.s_desc \o ".",
          "The " \o x.m2_desc \o " moves toward the " \o x.m1_desc \o ".",
          "The " \o x.m2_desc \o " does not collide with the " \o x.m1_desc \o
              ".",
          "The " \o x.m3_desc \o " moves toward the " \o x.m2_desc \o ".",
          "The " \o x.m3_desc \o " collides with the " \o x.m2_desc \o ".",
          "None.">>
    ELSE IF s = ADD_ONE_STATIC /\ DescIsSet(x.as_desc) THEN
        <<"The " \o x.m1_desc \o " moves toward the " \o x.s_desc \o ".",
          "The " \o x.m1_desc \o " collides with the " \o x.s_desc \o ".",
          "The " \o x.m2_desc \o " moves toward the " \o x.m1_desc \o ".",
          "The " \o x.m2_desc \o " does not collide with the " \o x.m1_desc \o
              ".",
          "The " \o x.m3_desc \o " moves toward the " \o x.m2_desc \o ".",
          "The " \o x.m3_desc \o " collides with the " \o x.m2_desc \o ".",
          "The " \o x.as_desc \o " is present.",
          "None.">>
    ELSE IF s = ADD_TWO_STATIC /\ DescIsSet(x.as1_desc) /\ DescIsSet(x.as2_desc) THEN
        <<"The " \o x.m1_desc \o " moves toward the " \o x.s_desc \o ".",
          "The " \o x.m1_desc \o " collides with the " \o x.s_desc \o ".",
          "The " \o x.m2_desc \o " moves toward the " \o x.m1_desc \o ".",
          "The " \o x.m2_desc \o " does not collide with the " \o x.m1_desc \o
              ".",
          "The " \o x.m3_desc \o " moves toward the " \o x.m2_desc \o ".",
          "The " \o x.m3_desc \o " collides with the " \o x.m2_desc \o ".",
          "The " \o x.as1_desc \o " is present.",
          "The " \o x.as2_desc \o " is present.",
          "None.">>
    ELSE IF s = ADD_ONE_MOVING /\ DescIsSet(x.am_desc) THEN
        <<"The " \o x.m1_desc \o " moves toward the " \o x.s_desc \o ".",
          "The " \o x.m1_desc \o " collides with the " \o x.s_desc \o ".",
          "The " \o x.m2_desc \o " moves toward the " \o x.m1_desc \o ".",
          "The " \o x.m2_desc \o " does not collide with the " \o x.m1_desc \o
              ".",
          "The " \o x.m3_desc \o " moves toward the " \o x.m2_desc \o ".",
          "The " \o x.m3_desc \o " collides with the " \o x.m2_desc \o ".",
          "The " \o x.am_desc \o " is present.",
          "None.">>
    ELSE IF s = ADD_TWO_MOVING /\ DescIsSet(x.am1_desc) /\ DescIsSet(x.am2_desc) THEN
        <<"The " \o x.m1_desc \o " moves toward the " \o x.s_desc \o ".",
          "The " \o x.m1_desc \o " collides with the " \o x.s_desc \o ".",
          "The " \o x.m2_desc \o " moves toward the " \o x.m1_desc \o ".",
          "The " \o x.m2_desc \o " does not collide with the " \o x.m1_desc \o
              ".",
          "The " \o x.m3_desc \o " moves toward the " \o x.m2_desc \o ".",
          "The " \o x.m3_desc \o " collides with the " \o x.m2_desc \o ".",
          "The " \o x.am1_desc \o " is present.",
          "The " \o x.am2_desc \o " is present.",
          "None.">>
    ELSE <<>>

\* the option strings each definition of actual cause designates
DoubleActualCauseMapping(x) ==
    [HP |-> <<"The " \o x.m1_desc \o " moves toward the " \o x.s_desc \o ".",
            "The " \o x.m1_desc \o " collides with the " \o x.s_desc \o ".",
            "The " \o x.m2_desc \o " does not collide with the " \o
                x.m1_desc \o ".",
            "The " \o x.m3_desc \o " moves toward the " \o x.m2_desc \o ".",
            "The " \o x.m3_desc \o " collides with the " \o x.m2_desc \o ".">>,
     BV |-> <<"The " \o x.m1_desc \o " moves toward the " \o x.s_desc \o ".",
            "The " \o x.m1_desc \o " collides with the " \o x.s_desc \o ".",
            "The " \o x.m2_desc \o " does not collide with the " \o
                x.m1_desc \o ".",
            "The " \o x.m3_desc \o " moves toward the " \o x.m2_desc \o ".",
            "The " \o x.m3_desc \o " collides with the " \o x.m2_desc \o ".">>,
     DBV |-> <<"The " \o x.m1_desc \o " moves toward the " \o x.s_desc \o ".",
             "The " \o x.m1_desc \o " collides with the " \o x.s_desc \o ".">>,
     Boc |-> <<"The " \o x.m1_desc \o " moves toward the " \o x.s_desc \o ".",
             "The " \o x.m1_desc \o " collides with the " \o x.s_desc \o ".",
             "The " \o x.m2_desc \o " does not collide with the " \o
                 x.m1_desc \o ".",
             "The " \o x.m3_desc \o " moves toward the " \o x.m2_desc \o ".",
             "The " \o x.m3_desc \o " collides with the " \o x.m2_desc \o ".">>]

\* qa_pairs of generate_qa_templates, in the order of the appends, for
\* the two shuffled option lists
DoubleQAPairs(x, attribution_options, actual_cause_options) ==
    <<[question |-> "Does the " \o x.m1_desc \o "'s collision with the " \o
                          x.s_desc \o " affect the " \o x.s_desc \o "'s motion?",
          answer |-> "Yes",
          question_type |-> "causality_identification",
          question_rung |-> "discovery",
          answer_type |-> "yes_no"],
      [question |-> "Does the " \o x.m2_desc \o "'s collision with the " \o
                          x.m1_desc \o " affect the " \o x.s_desc \o "'s motion?",
          answer |-> "Yes",
          question_type |-> "causality_identification",
          question_rung |-> "discovery",
          answer_type |-> "yes_no"],
      [question |-> "Does the " \o x.m3_desc \o "'s collision with the " \o
                          x.m2_desc \o " affect the " \o x.s_desc \o "'s motion?",
          answer |-> "Yes",
          question_type |-> "causality_identification",
          question_rung |-> "discovery",
          answer_type |-> "yes_no"],
      [question |-> "Why did the " \o x.s_desc \o " move?",
          answer |-> AnswerIndices(attribution_options, DoubleAttributionCorrect(x)),
          question_type |-> "causal_attribution",
          question_rung |-> "discovery",
          answer_type |-> "multi_choice",
          options |-> attribution_options],
      [question |-> "If we force the " \o x.m2_desc \o
                          " to collide with the " \o x.m1_desc \o ", will the " \o
                          x.m1_desc \o " cause the " \o x.s_desc \o " to move?",
          answer |-> "No",
          question_type |-> "individual_causal_effect",
          question_rung |-> "intervention",
          answer_type |-> "yes_no"],
      [question |-> "If we force the " \o x.m3_desc \o
                          " not to collide with the " \o x.m2_desc \o
                          ", will the " \o x.m1_desc \o " cause the " \o
                          x.s_desc \o " to move?",
          answer |-> "No",
          question_type |-> "individual_causal_effect",
          question_rung |-> "intervention",
          answer_type |-> "yes_no"],
      [question |-> "If we force the " \o x.m3_desc \o
                          " not to collide with the " \o x.m2_desc \o
                          ", will the " \o x.m2_desc \o " cause the " \o
                          x.s_desc \o " to stay stationary?",
          answer |-> "Yes",
          question_type |-> "individual_causal_effect",
          question_rung |-> "intervention",
          answer_type |-> "yes_no"],
      [question |-> "If the " \o x.m1_desc \o
                          " had not collided with the " \o x.s_desc \o
                          ", would the " \o x.s_desc \o " still have moved?",
          answer |-> "No",
          question_type |-> "counterfactual_reasoning",
          question_rung |-> "counterfactual",
          answer_type |-> "yes_no"],
      [question |-> "If the " \o x.m2_desc \o " had collided with the " \o
                          x.m1_desc \o ", would the " \o x.s_desc \o
                          " still have moved?",
          answer |-> "No",
          question_type |-> "counterfactual_reasoning",
          question_rung |-> "counterfactual",
          answer_type |-> "yes_no"],
      [question |-> "If the " \o x.m3_desc \o
                          " had not collided with the " \o x.m2_desc \o
                          ", would the " \o x.s_desc \o " still have moved?",
          answer |-> "No",
          question_type |-> "counterfactual_reasoning",
          question_rung |-> "counterfactual",
          answer_type |-> "yes_no"],
      [question |-> "Was the fact that the " \o x.m1_desc \o
                          " collided with the " \o x.s_desc \o
                          " sufficient for the " \o x.s_desc \o " to move?",
          answer |-> "Yes",
          question_type |-> "sufficient_cause",
          question_rung |-> "counterfactual",
          answer_type |-> "yes_no"],
      [question |-> "Was the fact that the " \o x.m2_desc \o
                          " did not collide with the " \o x.m1_desc \o
                          " sufficient for the " \o x.s_desc \o " to move?",
          answer |-> "No",
          question_type |-> "sufficient_cause",
          question_rung |-> "counterfactual",
          answer_type |-> "yes_no"],
      [question |-> "Was the fact that the " \o x.m3_desc \o
                          " collided with the " \o x.m2_desc \o
                          " sufficient for the " \o x.s_desc \o " to move?",
          answer |-> "No",
          question_type |-> "sufficient_cause",
          question_rung |-> "counterfactual",
          answer_type |-> "yes_no"],
      [question |-> "Was the fact that the " \o x.m1_desc \o
                          " collided with the " \o x.s_desc \o
                          " necessary for the " \o x.s_desc \o " to move?",
          answer |-> "Yes",
          question_type |-> "necessary_cause",
          question_rung |-> "counterfactual",
          answer_type |-> "yes_no"],
      [question |-> "Was the fact that the " \o x.m2_desc \o
                          " did not collide with the " \o x.m1_desc \o
                          " necessary for the " \o x.s_desc \o " to move?",
          answer |-> "Yes",
          question_type |-> "necessary_cause",
          question_rung |-> "counterfactual",
          answer_type |-> "yes_no"],
      [question |-> "Was the fact that the " \o x.m3_desc \o
                          " collided with the " \o x.m2_desc \o
                          " necessary for the " \o x.s_desc \o " to move?",
          answer |-> "Yes",
          question_type |-> "necessary_cause",
          question_rung |-> "counterfactual",
          answer_type |-> "yes_no"],
      [question |-> "What is the actual cause of the " \o x.s_desc \o
                          " moving?",
          answer |-> AnswerByDefinition(actual_cause_options, DoubleActualCauseMapping(x)),
          question_type |-> "actual_cause",
          question_rung |-> "counterfactual",
          answer_type |-> "multi_choice",
          options |-> actual_cause_options],
      [question |-> "Was the fact that the " \o x.m1_desc \o
                          " collided with the " \o x.s_desc \o
                          " responsible for the " \o x.s_desc \o " moving?",
          answer |-> "Yes",
          question_type |-> "responsibility",
          question_rung |-> "counterfactual",
          answer_type |-> "yes_no"],
      [question |-> "Was the fact that the " \o x.m2_desc \o
                          " did not collide with the " \o x.m1_desc \o
                          " responsible for the " \o x.s_desc \o " moving?",
          answer |-> "No",
          question_type |-> "responsibility",
          question_rung |-> "counterfactual",
          answer_type |-> "yes_no"],
      [question |-> "Was the fact that the " \o x.m3_desc \o
                          " collided with the " \o x.m2_desc \o
                          " responsible for the " \o x.s_desc \o " moving?",
          answer |-> "No",
          question_type |-> "responsibility",
          question_rung |-> "counterfactual",
          answer_type |-> "yes_no"]>>

\* the early return of generate_cr_templates: both models None
DoubleCRRolesMissing(a) ==
    a.M1 = None \/ a.M2 = None \/ a.M3 = None \/ a.S = None

\* causal_graph of generate_cr_templates: the variables of the scenario,
\* extended by the indicator variables of the distractors, and the edges
DoubleCausalGraph(x, s) ==
    LET variables ==
            ("X1" :> "The " \o x.m1_desc \o "'s collision with the " \o
                        x.s_desc)
            @@ ("X2" :> "The " \o x.m2_desc \o "'s collision with the " \o
                        x.m1_desc)
            @@ ("X3" :> "The " \o x.m3_desc \o "'s collision with the " \o
                        x.m2_desc)
            @@ ("Z1" :> "The " \o x.m1_desc \o "'s motion toward the " \o x.s_desc)
            @@ ("Z2" :> "The " \o x.m2_desc \o "'s motion toward the " \o
                        x.m1_desc)
            @@ ("Z3" :> "The " \o x.m3_desc \o "'s motion toward the " \o
                        x.m2_desc)
            @@ ("Y" :> "The " \o x.s_desc \o "'s motion")
        edges == <<"Z1 -> X1",
                   "Z2 -> X2",
                   "Z2 -> X3",
                   "Z3 -> X3",
                   "X1 -> Y",
                   "X2 -> X1",
                   "X3 -> X2">>
    IN  [variables |->
             IF s = ADD_ONE_STATIC /\ DescIsSet(x.as_desc)
             THEN ("S" :> "The " \o x.as_desc \o "'s presence")
                  @@ variables
             ELSE IF s = ADD_TWO_STATIC /\ DescIsSet(x.as1_desc) /\ DescIsSet(x.as2_desc)
             THEN ("S1" :> "The " \o x.as1_desc \o "'s presence")
                  @@ ("S2" :> "The " \o x.as2_desc \o "'s presence")
                  @@ variables
             ELSE IF s = ADD_ONE_MOVING /\ DescIsSet(x.am_desc)
             THEN ("M" :> "The " \o x.am_desc \o "'s presence")
                  @@ variables
             ELSE IF s = ADD_TWO_MOVING /\ DescIsSet(x.am1_desc) /\ DescIsSet(x.am2_desc)
             THEN ("M1" :> "The " \o x.am1_desc \o "'s presence")
                  @@ ("M2" :> "The " \o x.am2_desc \o "'s presence")
                  @@ variables
             ELSE variables,
         edges |-> edges]

\* twin_network of generate_cr_templates: the factual world and the
\* counterfactual worlds, each extended by the distractors' assignments
DoubleTwinNetwork(x, s) ==
    LET factual_world == "Z1=1, Z2=1, Z3=1, X1=1, X2=0, X3=1, Y=1"
        counterfactual_world ==
            ("do(X1=0)" :> "Z1=1, Z2=?, Z3=?, X2=?, X3=?, Y=0")
            @@ ("do(X2=1)" :> "Z1=1, Z2=1, Z3=?, X1=0, X3=?, Y=0")
            @@ ("do(X3=0)" :> "Z1=1, Z2=1, Z3=1, X1=0, X2=1, Y=0")
        Extended(factual_suffix, suffix) ==
            [factual_world |-> factual_world \o factual_suffix,
             counterfactual_world |->
                 [w \in DOMAIN counterfactual_world |->
                     counterfactual_world[w] \o suffix[w]]]
    IN  IF s = ADD_ONE_STATIC /\ DescIsSet(x.as_desc)
        THEN Extended(", S=1",
                      ("do(X1=0)" :> ", S=1")
                      @@ ("do(X2=1)" :> ", S=1")
                      @@ ("do(X3=0)" :> ", S=1"))
        ELSE IF s = ADD_TWO_STATIC /\ DescIsSet(x.as1_desc) /\ DescIsSet(x.as2_desc)
        THEN Extended(", S1=1, S2=1",
                      ("do(X1=0)" :> ", S1=1, S2=1")
                      @@ ("do(X2=1)" :> ", S1=1, S2=1")
                      @@ ("do(X3=0)" :> ", S1=1, S2=1"))
        ELSE IF s = ADD_ONE_MOVING /\ DescIsSet(x.am_desc)
        THEN Extended(", M=1",
                      ("do(X1=0)" :> ", M=1")
                      @@ ("do(X2=1)" :> ", M=1")
                      @@ ("do(X3=0)" :> ", M=1"))
        ELSE IF s = ADD_TWO_MOVING /\ DescIsSet(x.am1_desc) /\ DescIsSet(x.am2_desc)
        THEN Extended(", M1=1, M2=1",
                      ("do(X1=0)" :> ", M1=1, M2=1")
                      @@ ("do(X2=1)" :> ", M1=1, M2=1")
                      @@ ("do(X3=0)" :> ", M1=1, M2=1"))
        ELSE [factual_world |-> factual_world,
              counterfactual_world |-> counterfactual_world]

-----------------------------------------------------------------------------
(* Bogus-prevention synthesizer and encoder, bogus.py *)

\* the early return of generate_qa_templates: `return []`
BogusQARolesMissing(a) ==
    a.M1 = None \/ a.M2 = None \/ a.S1 = None \/ a.S2 = None

\* the description variables of generate_qa_templates
BogusDescriptions(d, a, s) ==
    LET distractors == DistractorDescriptions(d, a, s)
    IN  [
         m1_desc |-> GetObjectDescription(a.M1, d.object_property),
         m2_desc |-> GetObjectDescription(a.M2, d.object_property),
         s1_desc |-> GetObjectDescription(a.S1, d.object_property),
         s2_desc |-> GetObjectDescription(a.S2, d.object_property),
         as_desc |-> distractors.as_desc,
         as1_desc |-> distractors.as1_desc,
         as2_desc |-> distractors.as2_desc,
         am_desc |-> distractors.am_desc,
         am1_desc |-> distractors.am1_desc,
         am2_desc |-> distractors.am2_desc]

\* the pre-shuffle option list of the causal_attribution question
BogusAttributionOptions(x, s) ==
    IF ~SettingIsSet(s) THEN
        <<"Because the " \o x.m1_desc \o " collided with the " \o x.s2_desc \o
              ".",
          "Because the " \o x.m2_desc \o " did not collide with the " \o
              x.s2_desc \o ".",
          "Because the " \o x.s2_desc \o " did not move toward the " \o
              x.s1_desc \o ".",
          "Because the " \o x.s1_desc \o " moved spontaneously.">>
    ELSE IF s = ADD_ONE_STATIC /\ DescIsSet(x.as_desc) THEN
        <<"Because the " \o x.m1_desc \o " collided with the " \o x.s2_desc \o
              ".",
          "Because the " \o x.m2_desc \o " did not collide with the " \o
              x.s2_desc \o ".",
          "Because the " \o x.s2_desc \o " did not move toward the " \o
              x.s1_desc \o ".",
          "Because the " \o x.as_desc \o " was present.",
          "Because the " \o x.s1_desc \o " moved spontaneously.">>
    ELSE IF s = ADD_TWO_STATIC /\ DescIsSet(x.as1_desc) /\ DescIsSet(x.as2_desc) THEN
        <<"Because the " \o x.m1_desc \o " collided with the " \o x.s2_desc \o
              ".",
          "Because the " \o x.m2_desc \o " did not collide with the " \o
              x.s2_desc \o ".",
          "Because the " \o x.s2_desc \o " did not move toward the " \o
              x.s1_desc \o ".",
          "Because the " \o x.as1_desc \o " was present.",
          "Because the " \o x.as2_desc \o " was present.",
          "Because the " \o x.s1_desc \o " moved spontaneously.">>
    ELSE IF s = ADD_ONE_MOVING /\ DescIsSet(x.am_desc) THEN
        <<"Because the " \o x.m1_desc \o " collided with the " \o x.s2_desc \o
              ".",
          "Because the " \o x.m2_desc \o " did not collide with the " \o
              x.s2_desc \o ".",
          "Because the " \o x.s2_desc \o " did not move toward the " \o
              x.s1_desc \o ".",
          "Because the " \o x.am_desc \o " was present.",
          "Because the " \o x.s1_desc \o " moved spontaneously.">>
    ELSE IF s = ADD_TWO_MOVING /\ DescIsSet(x.am1_desc) /\ DescIsSet(x.am2_desc) THEN
        <<"Because the " \o x.m1_desc \o " collided with the " \o x.s2_desc \o
              ".",
          "Because the " \o x.m2_desc \o " did not collide with the " \o
              x.s2_desc \o ".",
          "Because the " \o x.s2_desc \o " did not move toward the " \o
              x.s1_desc \o ".",
          "Because the " \o x.am1_desc \o " was present.",
          "Because the " \o x.am2_desc \o " was present.",
          "Because the " \o x.s1_desc \o " moved spontaneously.">>
    ELSE <<>>

\* correct_answers of the causal_attribution question
BogusAttributionCorrect(x) ==
    <<"Because the " \o x.m2_desc \o " did not collide with the " \o
          x.s2_desc \o ".">>

\* the pre-shuffle option list of the actual_cause question
BogusActualCauseOptions(x, s) ==
    IF ~SettingIsSet(s) THEN
        <<"The " \o x.m1_desc \o " collides with the " \o x.s2_desc \o ".",
          "The " \o x.m2_desc \o " does not collide with the " \o x.s2_desc \o
              ".",
          "The " \o x.m1_desc \o " collides with the " \o x.s2_desc \o
              " and the " \o x.m2_desc \o " does not collide with the " \o
              x.s2_desc \o ".",
          "The " \o x.s2_desc \o " does not move toward the " \o x.s1_desc \o
              ".",
          "None.">>
    ELSE IF s = ADD_ONE_STATIC /\ DescIsSet(x.as_desc) THEN
        <<"The " \o x.m1_desc \o " collides with the " \o x.s2_desc \o ".",
          "The " \o x.m2_desc \o " does not collide with the " \o x.s2_desc \o
              ".",
          "The " \o x.m1_desc \o " collides with the " \o x.s2_desc \o
              " and the " \o x.m2_desc \o " does not collide with the " \o
              x.s2_desc \o ".",
          "The " \o x.s2_desc \o " does not move toward the " \o x.s1_desc \o
              ".",
          "The " \o x.as_desc \o " is present.",
          "None.">>
    ELSE IF s = ADD_TWO_STATIC /\ DescIsSet(x.as1_desc) /\ DescIsSet(x.as2_desc) THEN
        <<"The " \o x.m1_desc \o " collides with the " \o x.s2_desc \o ".",
          "The " \o x.m2_desc \o " does not collide with the " \o x.s2_desc \o
              ".",
          "The " \o x.m1_desc \o " collides with the " \o x.s2_desc \o
              " and the " \o x.m2_desc \o " does not collide with the " \o
              x.s2_desc \o ".",
          "The " \o x.s2_desc \o " does not move toward the " \o x.s1_desc \o
              ".",
          "The " \o x.as1_desc \o " is present.",
          "The " \o x.as2_desc \o " is present.",
          "None.">>
    ELSE IF s = ADD_ONE_MOVING /\ DescIsSet(x.am_desc) THEN
        <<"The " \o x.m1_desc \o " collides with the " \o x.s2_desc \o ".",
          "The " \o x.m2_desc \o " does not collide with the " \o x.s2_desc \o
              ".",
          "The " \o x.m1_desc \o " collides with the " \o x.s2_desc \o
              " and the " \o x.m2_desc \o " does not collide with the " \o
              x.s2_desc \o ".",
          "The " \o x.s2_desc \o " does not move toward the " \o x.s1_desc \o
              ".",
          "The " \o x.am_desc \o " is present.",
          "None.">>
    ELSE IF s = ADD_TWO_MOVING /\ DescIsSet(x.am1_desc) /\ DescIsSet(x.am2_desc) THEN
        <<"The " \o x.m1_desc \o " collides with the " \o x.s2_desc \o ".",
          "The " \o x.m2_desc \o " does not collide with the " \o x.s2_desc \o
              ".",
          "The " \o x.m1_desc \o " collides with the " \o x.s2_desc \o
              " and the " \o x.m2_desc \o " does not collide with the " \o
              x.s2_desc \o ".",
          "The " \o x.s2_desc \o " does not move toward the " \o x.s1_desc \o
              ".",
          "The " \o x.am1_desc \o " is present.",
          "The " \o x.am2_desc \o " is present.",
          "None.">>
    ELSE <<>>

\* the option strings each definition of actual cause designates
BogusActualCauseMapping(x) ==
    [HP |-> <<"The " \o x.m1_desc \o " collides with the " \o x.s2_desc \o
                " and the " \o x.m2_desc \o " does not collide with the " \o
                x.s2_desc \o ".",
            "The " \o x.s2_desc \o " does not move toward the " \o
                x.s1_desc \o ".">>,
     BV |-> <<"The " \o x.m2_desc \o " does not collide with the " \o
                x.s2_desc \o ".",
            "The " \o x.s2_desc \o " does not move toward the " \o
                x.s1_desc \o ".">>,
     DBV |-> <<"The " \o x.m2_desc \o " does not collide with the " \o
                 x.s2_desc \o ".",
             "The " \o x.s2_desc \o " does not move toward the " \o
                 x.s1_desc \o ".">>,
     Boc |-> <<"The " \o x.m1_desc \o " collides with the " \o x.s2_desc \o ".",
             "The " \o x.m2_desc \o " does not collide with the " \o
                 x.s2_desc \o ".",
             "The " \o x.s2_desc \o " does not move toward the " \o
                 x.s1_desc \o ".">>]

\* qa_pairs of generate_qa_templates, in the order of the appends, for
\* the two shuffled option lists
BogusQAPairs(x, attribution_options, actual_cause_options) ==
    <<[question |-> "Does the " \o x.m1_desc \o "'s collision with the " \o
                          x.s2_desc \o " affect the " \o x.s1_desc \o "'s motion?",
          answer |-> "Yes",
          question_type |-> "causality_identification",
          question_rung |-> "discovery",
          answer_type |-> "yes_no"],
      [question |-> "Does the " \o x.m2_desc \o "'s collision with the " \o
                          x.s2_desc \o " affect the " \o x.s1_desc \o "'s motion?",
          answer |-> "Yes",
          question_type |-> "causality_identification",
          question_rung |-> "discovery",
          answer_type |-> "yes_no"],
      [question |-> "Does the " \o x.s2_desc \o "'s motion toward the " \o
                          x.s1_desc \o " affect the " \o x.s1_desc \o "'s motion?",
          answer |-> "Yes",
          question_type |-> "causality_identification",
          question_rung |-> "discovery",
          answer_type |-> "yes_no"],
      [question |-> "Why did the " \o x.s1_desc \o " stay stationary?",
          answer |-> AnswerIndices(attribution_options, BogusAttributionCorrect(x)),
          question_type |-> "causal_attribution",
          question_rung |-> "discovery",
          answer_type |-> "multi_choice",
          options |-> attribution_options],
      [question |-> "If we force the " \o x.m1_desc \o
                          " not to collide with the " \o x.s2_desc \o
                          " and force the " \o x.m2_desc \o
                          " to collide with the " \o x.s2_desc \o ", will the " \o
                          x.s2_desc \o " cause the " \o x.s1_desc \o " to move?",
          answer |-> "Yes",
          question_type |-> "individual_causal_effect",
          question_rung |-> "intervention",
          answer_type |-> "yes_no"],
      [question |-> "If we force the " \o x.m1_desc \o
                          " not to collide with the " \o x.s2_desc \o
                          " and force the " \o x.m2_desc \o
                          " to collide with the " \o x.s2_desc \o ", will the " \o
                          x.m1_desc \o " cause the " \o x.s1_desc \o " to move?",
          answer |-> "No",
          question_type |-> "individual_causal_effect",
          question_rung |-> "intervention",
          answer_type |-> "yes_no"],
      [question |-> "If we force the " \o x.m2_desc \o
                          " to collide with the " \o x.s2_desc \o ", will the " \o
                          x.s2_desc \o " cause the " \o x.s1_desc \o " to move?",
          answer |-> "No",
          question_type |-> "individual_causal_effect",
          question_rung |-> "intervention",
          answer_type |-> "yes_no"],
      [question |-> "If the " \o x.m1_desc \o
                          " had not collided with the " \o x.s2_desc \o
                          " and the " \o x.m2_desc \o " had collided with the " \o
                          x.s2_desc \o ", would the " \o x.s1_desc \o
                          " still have stayed stationary?",
          answer |-> "No",
          question_type |-> "counterfactual_reasoning",
          question_rung |-> "counterfactual",
          answer_type |-> "yes_no"],
      [question |-> "If the " \o x.m2_desc \o " had collided with the " \o
                          x.s2_desc \o ", would the " \o x.s1_desc \o
                          " still have stayed stationary?",
          answer |-> "Yes",
          question_type |-> "counterfactual_reasoning",
          question_rung |-> "counterfactual",
          answer_type |-> "yes_no"],
      [question |-> "Was the fact that the " \o x.m1_desc \o
                          " collided with the " \o x.s2_desc \o
                          " sufficient for the " \o x.s1_desc \o
                          " to stay stationary?",
          answer |-> "Yes",
          question_type |-> "sufficient_cause",
          question_rung |-> "counterfactual",
          answer_type |-> "yes_no"],
      [question |-> "Was the fact that the " \o x.m2_desc \o
                          " did not collide with the " \o x.s2_desc \o
                          " sufficient for the " \o x.s1_desc \o
                          " to stay stationary?",
          answer |-> "Yes",
          question_type |-> "sufficient_cause",
          question_rung |-> "counterfactual",
          answer_type |-> "yes_no"],
      [question |-> "Was the fact that the " \o x.s2_desc \o
                          " did not move toward the " \o x.s1_desc \o
                          " sufficient for the " \o x.s1_desc \o
                          " to stay stationary?",
          answer |-> "Yes",
          question_type |-> "sufficient_cause",
          question_rung |-> "counterfactual",
          answer_type |-> "yes_no"],
      [question |-> "Was the fact that the " \o x.m1_desc \o
                          " collided with the " \o x.s2_desc \o
                          " necessary for the " \o x.s1_desc \o
                          " to stay stationary?",
          answer |-> "No",
          question_type |-> "necessary_cause",
          question_rung |-> "counterfactual",
          answer_type |-> "yes_no"],
      [question |-> "Was the fact that the " \o x.m2_desc \o
                          " did not collide with the " \o x.s2_desc \o
                          " necessary for the " \o x.s1_desc \o
                          " to stay stationary?",
          answer |-> "No",
          question_type |-> "necessary_cause",
          question_rung |-> "counterfactual",
          answer_type |-> "yes_no"],
      [question |-> "Was the fact that the " \o x.s2_desc \o
                          " did not move toward the " \o x.s1_desc \o
                          " necessary for the " \o x.s1_desc \o
                          " to stay stationary?",
          answer |-> "No",
          question_type |-> "necessary_cause",
          question_rung |-> "counterfactual",
          answer_type |-> "yes_no"],
      [question |-> "What is the actual cause of the " \o x.s1_desc \o
                          " staying stationary?",
          answer |-> AnswerByDefinition(actual_cause_options, BogusActualCauseMapping(x)),
          question_type |-> "actual_cause",
          question_rung |-> "counterfactual",
          answer_type |-> "multi_choice",
          options |-> actual_cause_options],
      [question |-> "Was the fact that the " \o x.m1_desc \o
                          " collided with the " \o x.s2_desc \o
                          " responsible for the " \o x.s1_desc \o
                          " staying stationary?",
          answer |-> "No",
          question_type |-> "responsibility",
          question_rung |-> "counterfactual",
          answer_type |-> "yes_no"],
      [question |-> "Was the fact that the " \o x.m2_desc \o
                          " did not collide with the " \o x.s2_desc \o
                          " responsible for the " \o x.s1_desc \o
                          " staying stationary?",
          answer |-> "Yes",
          question_type |-> "responsibility",
          question_rung |-> "counterfactual",
          answer_type |-> "yes_no"],
      [question |-> "Was the fact that the " \o x.s2_desc \o
                          " did not move toward the " \o x.s1_desc \o
                          " responsible for the " \o x.s1_desc \o
                          " staying stationary?",
          answer |-> "No",
          question_type |-> "responsibility",
          question_rung |-> "counterfactual",
          answer_type |-> "yes_no"]>>

\* the early return of generate_cr_templates: both models None
BogusCRRolesMissing(a) ==
    a.M1 = None \/ a.M2 = None \/ a.S1 = None \/ a.S2 = None

\* causal_graph of generate_cr_templates: the variables of the scenario,
\* extended by the indicator variables of the distractors, and the edges
BogusCausalGraph(x, s) ==
    LET variables ==
            ("X1" :> "The " \o x.m1_desc \o "'s collision with the " \o
                        x.s2_desc)
            @@ ("X2" :> "The " \o x.m2_desc \o "'s collision with the " \o
                        x.s2_desc)
            @@ ("Z" :> "The " \o x.s2_desc \o "'s motion toward the " \o
                        x.s1_desc)
            @@ ("W" :> "The " \o x.s2_desc \o " reaches the " \o x.s1_desc)
            @@ ("Y" :> "The " \o x.s1_desc \o "'s motion")
        edges == <<"X1 -> Z",
                   "X2 -> Z",
                   "Z -> Y",
                   "W -> Y">>
    IN  [variables |->
             IF s = ADD_ONE_STATIC /\ DescIsSet(x.as_desc)
             THEN ("S" :> "The " \o x.as_desc \o "'s presence")
                  @@ variables
             ELSE IF s = ADD_TWO_STATIC /\ DescIsSet(x.as1_desc) /\ DescIsSet(x.as2_desc)
             THEN ("S1" :> "The " \o x.as1_desc \o "'s presence")
                  @@ ("S2" :> "The " \o x.as2_desc \o "'s presence")
                  @@ variables
             ELSE IF s = ADD_ONE_MOVING /\ DescIsSet(x.am_desc)
             THEN ("M" :> "The " \o x.am_desc \o "'s presence")
                  @@ variables
             ELSE IF s = ADD_TWO_MOVING /\ DescIsSet(x.am1_desc) /\ DescIsSet(x.am2_desc)
             THEN ("M1" :> "The " \o x.am1_desc \o "'s presence")
                  @@ ("M2" :> "The " \o x.am2_desc \o "'s presence")
                  @@ variables
             ELSE variables,
         edges |-> edges]

\* twin_network of generate_cr_templates: the factual world and the
\* counterfactual worlds, each extended by the distractors' assignments
BogusTwinNetwork(x, s) ==
    LET factual_world == "X1=1, X2=0, Z=0, W=0, Y=0"
        counterfactual_world ==
            ("do(X1=0, X2=1)" :> "Z=1, W=?, Y=W")
            @@ ("do(X1=1, X2=1)" :> "Z=0, W=0, Y=0")
        Extended(factual_suffix, suffix) ==
            [factual_world |-> factual_world \o factual_suffix,
             counterfactual_world |->
                 [w \in DOMAIN counterfactual_world |->
                     counterfactual_world[w] \o suffix[w]]]
    IN  IF s = ADD_ONE_STATIC /\ DescIsSet(x.as_desc)
        THEN Extended(", S=1",
                      ("do(X1=0, X2=1)" :> ", S=1")
                      @@ ("do(X1=1, X2=1)" :> ", S=1"))
        ELSE IF s = ADD_TWO_STATIC /\ DescIsSet(x.as1_desc) /\ DescIsSet(x.as2_desc)
        THEN Extended(", S1=1, S2=1",
                      ("do(X1=0, X2=1)" :> ", S1=1, S2=1")
                      @@ ("do(X1=1, X2=1)" :> ", S1=1, S2=1"))
        ELSE IF s = ADD_ONE_MOVING /\ DescIsSet(x.am_desc)
        THEN Extended(", M=1",
                      ("do(X1=0, X2=1)" :> ", M=1")
                      @@ ("do(X1=1, X2=1)" :> ", M=1"))
        ELSE IF s = ADD_TWO_MOVING /\ DescIsSet(x.am1_desc) /\ DescIsSet(x.am2_desc)
        THEN Extended(", M1=1, M2=1",
                      ("do(X1=0, X2=1)" :> ", M1=1, M2=1")
                      @@ ("do(X1=1, X2=1)" :> ", M1=1, M2=1"))
        ELSE [factual_world |-> factual_world,
              counterfactual_world |-> counterfactual_world]

-----------------------------------------------------------------------------
(* The generator registered for a scenario, generator.py:
   self.scenario_generator = self.scenario_generators.get(scenario_name) *)

Descriptions(name, d, a, s) ==
    CASE name = "overdetermination" -> OverdeterminationDescriptions(d, a, s)
      [] name = "switch" -> SwitchDescriptions(d, a, s)
      [] name = "late" -> LateDescriptions(d, a, s)
      [] name = "early" -> EarlyDescriptions(d, a, s)
      [] name = "double" -> DoubleDescriptions(d, a, s)
      [] name = "bogus" -> BogusDescriptions(d, a, s)

QARolesMissing(name, a) ==
    CASE name = "overdetermination" -> OverdeterminationQARolesMissing(a)
      [] name = "switch" -> SwitchQARolesMissing(a)
      [] name = "late" -> LateQARolesMissing(a)
      [] name = "early" -> EarlyQARolesMissing(a)
      [] name = "double" -> DoubleQARolesMissing(a)
      [] name = "bogus" -> BogusQARolesMissing(a)

AttributionOptions(name, x, s) ==
    CASE name = "overdetermination" -> OverdeterminationAttributionOptions(x, s)
      [] name = "switch" -> SwitchAttributionOptions(x, s)
      [] name = "late" -> LateAttributionOptions(x, s)
      [] name = "early" -> EarlyAttributionOptions(x, s)
      [] name = "double" -> DoubleAttributionOptions(x, s)
      [] name = "bogus" -> BogusAttributionOptions(x, s)

AttributionCorrect(name, x) ==
    CASE name = "overdetermination" -> OverdeterminationAttributionCorrect(x)
      [] name = "switch" -> SwitchAttributionCorrect(x)
      [] name = "late" -> LateAttributionCorrect(x)
      [] name = "early" -> EarlyAttributionCorrect(x)
      [] name = "double" -> DoubleAttributionCorrect(x)
      [] name = "bogus" -> BogusAttributionCorrect(x)

ActualCauseOptions(name, x, s) ==
    CASE name = "overdetermination" -> OverdeterminationActualCauseOptions(x, s)
      [] name = "switch" -> SwitchActualCauseOptions(x, s)
      [] name = "late" -> LateActualCauseOptions(x, s)
      [] name = "early" -> EarlyActualCauseOptions(x, s)
      [] name = "double" -> DoubleActualCauseOptions(x, s)
      [] name = "bogus" -> BogusActualCauseOptions(x, s)

ActualCauseMapping(name, x) ==
    CASE name = "overdetermination" -> OverdeterminationActualCauseMapping(x)
      [] name = "switch" -> SwitchActualCauseMapping(x)
      [] name = "late" -> LateActualCauseMapping(x)
      [] name = "early" -> EarlyActualCauseMapping(x)
      [] name = "double" -> DoubleActualCauseMapping(x)
      [] name = "bogus" -> BogusActualCauseMapping(x)

\* a variant of the synthesizer: a scene with one static distractor gets one
\* more question, about the distractor
QAPairsWithDistractorQuestion(name, x, attribution_options, actual_cause_options) ==
    LET pairs ==
            CASE name = "overdetermination" ->
                     OverdeterminationQAPairs(x, attribution_options, actual_cause_options)
              [] name = "switch" -> SwitchQAPairs(x, attribution_options, actual_cause_options)
              [] name = "late" -> LateQAPairs(x, attribution_options, actual_cause_options)
              [] name = "early" -> EarlyQAPairs(x, attribution_options, actual_cause_options)
              [] name = "double" -> DoubleQAPairs(x, attribution_options, actual_cause_options)
              [] name = "bogus" -> BogusQAPairs(x, attribution_options, actual_cause_options)
    IN  IF DescIsSet(x.as_desc)
        THEN Append(pairs, [question |-> "Is the " \o x.as_desc \o " present?",
                            answer |-> "Yes",
                            question_type |-> "causality_identification",
                            question_rung |-> "discovery",
                            answer_type |-> "yes_no"])
        ELSE pairs

QAPairs(name, x, attribution_options, actual_cause_options) ==
    CASE name = "overdetermination" ->
             OverdeterminationQAPairs(x, attribution_options, actual_cause_options)
      [] name = "switch" -> SwitchQAPairs(x, attribution_options, actual_cause_options)
      [] name = "late" -> LateQAPairs(x, attribution_options, actual_cause_options)
      [] name = "early" -> EarlyQAPairs(x, attribution_options, actual_cause_options)
      [] name = "double" -> DoubleQAPairs(x, attribution_options, actual_cause_options)
      [] name = "bogus" -> BogusQAPairs(x, attribution_options, actual_cause_options)

CRRolesMissing(name, a) ==
    CASE name = "overdetermination" -> OverdeterminationCRRolesMissing(a)
      [] name = "switch" -> SwitchCRRolesMissing(a)
      [] name = "late" -> LateCRRolesMissing(a)
      [] name = "early" -> EarlyCRRolesMissing(a)
      [] name = "double" -> DoubleCRRolesMissing(a)
      [] name = "bogus" -> BogusCRRolesMissing(a)

\* a variant of the encoder: the indicator variable S of a static distractor
\* is given an edge to the outcome
CausalGraphWithDistractorEdge(name, x, s) ==
    LET graph ==
        CASE name = "overdetermination" -> OverdeterminationCausalGraph(x, s)
              [] name = "switch" -> SwitchCausalGraph(x, s)
              [] name = "late" -> LateCausalGraph(x, s)
              [] name = "early" -> EarlyCausalGraph(x, s)
              [] name = "double" -> DoubleCausalGraph(x, s)
              [] name = "bogus" -> BogusCausalGraph(x, s)
    IN  IF "S" \in DOMAIN graph.variables
        THEN [graph EXCEPT !.edges = @ \o <<"S -> Y">>]
        ELSE graph

\* a variant of the encoder: the outcome variable Y is not declared
CausalGraphWithoutOutcome(name, x, s) ==
    LET graph ==
        CASE name = "overdetermination" -> OverdeterminationCausalGraph(x, s)
              [] name = "switch" -> SwitchCausalGraph(x, s)
              [] name = "late" -> LateCausalGraph(x, s)
              [] name = "early" -> EarlyCausalGraph(x, s)
              [] name = "double" -> DoubleCausalGraph(x, s)
              [] name = "bogus" -> BogusCausalGraph(x, s)
    IN  [graph EXCEPT !.variables =
            [key \in DOMAIN graph.variables \ {"Y"} |-> graph.variables[key]]]

CausalGraph(name, x, s) ==
    CASE name = "overdetermination" -> OverdeterminationCausalGraph(x, s)
      [] name = "switch" -> SwitchCausalGraph(x, s)
      [] name = "late" -> LateCausalGraph(x, s)
      [] name = "early" -> EarlyCausalGraph(x, s)
      [] name = "double" -> DoubleCausalGraph(x, s)
      [] name = "bogus" -> BogusCausalGraph(x, s)

\* a variant of the encoder: only the factual world is extended by the
\* distractors' assignments
TwinNetworkExtendsFactualOnly(name, x, s) ==
    LET Worlds(st) ==
        CASE name = "overdetermination" -> OverdeterminationTwinNetwork(x, st)
              [] name = "switch" -> SwitchTwinNetwork(x, st)
              [] name = "late" -> LateTwinNetwork(x, st)
              [] name = "early" -> EarlyTwinNetwork(x, st)
              [] name = "double" -> DoubleTwinNetwork(x, st)
              [] name = "bogus" -> BogusTwinNetwork(x, st)
    IN  [Worlds(s) EXCEPT !.counterfactual_world =
                              Worlds(NoSetting).counterfactual_world]

TwinNetwork(name, x, s) ==
    CASE name = "overdetermination" -> OverdeterminationTwinNetwork(x, s)
      [] name = "switch" -> SwitchTwinNetwork(x, s)
      [] name = "late" -> LateTwinNetwork(x, s)
      [] name = "early" -> EarlyTwinNetwork(x, s)
      [] name = "double" -> DoubleTwinNetwork(x, s)
      [] name = "bogus" -> BogusTwinNetwork(x, s)

\* generate_qa_templates raises ValueError: the roles are bound and some
\* correct answer is not in its option list (random.sample keeps the
\* elements, so this does not depend on the shuffle)
QATemplatesRaise(name, d, a, s) ==
    /\ ~QARolesMissing(name, a)
    /\ LET x == Descriptions(name, d, a, s)
           mapping == ActualCauseMapping(name, x)
       IN  \/ IndexRaises(AttributionOptions(name, x, s), AttributionCorrect(name, x))
           \/ \E definition \in DOMAIN mapping :
                  IndexRaises(ActualCauseOptions(name, x, s), mapping[definition])

\* a variant of the synthesizer: the answer indices are looked up in the
\* option lists as written, the shuffled lists are only stored as options
GenerateQAIndexedBeforeShuffle(name, d, a, s, p1, p2) ==
    IF QARolesMissing(name, a) THEN <<>>
    ELSE LET x == Descriptions(name, d, a, s)
             pairs == QAPairs(name, x, AttributionOptions(name, x, s),
                              ActualCauseOptions(name, x, s))
         IN  [i \in 1..Len(pairs) |->
                 IF pairs[i].answer_type # "multi_choice" THEN pairs[i]
                 ELSE [pairs[i] EXCEPT !.options =
                          Shuffled(@, IF pairs[i].question_type = "causal_attribution"
                                      THEN p1 ELSE p2)]]

\* generate_qa_templates(data, analysis) when it returns, for the orders p1
\* and p2 of the two random.sample calls
GenerateQATemplates(name, d, a, s, p1, p2) ==
    IF QARolesMissing(name, a) THEN <<>>
    ELSE LET x == Descriptions(name, d, a, s)
         IN  QAPairs(name, x,
                     Shuffled(AttributionOptions(name, x, s), p1),
                     Shuffled(ActualCauseOptions(name, x, s), p2))

\* a variant of the encoder without the guard on the roles
GenerateCRWithoutGuard(name, d, a, s) ==
    LET x == Descriptions(name, d, a, s)
    IN  [causal_graph |-> CausalGraph(name, x, s),
         twin_network |-> TwinNetwork(name, x, s)]

\* generate_cr_templates(data, analysis)
GenerateCRTemplates(name, d, a, s) ==
    IF CRRolesMissing(name, a)
    THEN [causal_graph |-> NullModel, twin_network |-> NullModel]
    ELSE LET x == Descriptions(name, d, a, s)
         IN  [causal_graph |-> CausalGraph(name, x, s),
              twin_network |-> TwinNetwork(name, x, s)]

-----------------------------------------------------------------------------
(* Simulation records the generators are run on *)

\* object counts of a scene
MaxStatic == 4
MaxMoving == 5
MaxObjects == 6
\* frames of a trajectory
NumFrames == 3
\* distance between neighbouring objects, in location units
Spacing == 10
\* speed of a moving object, in velocity units (0.2)
FastSpeed == 40

\* frame t of the trajectory of a scene with the given frame-zero speeds:
\* object i starts on the x axis at -Spacing * i, moving along +x, so that a
\* moving object heads for every object of lower id; it advances by a tenth
\* of its speed per frame; once it has taken part in a collision, an object
\* that stood still moves off along +x and a moving object is deflected to +y;
\* at a further collision the first gains speed again and the second is
\* turned back along -x
SceneFrame(speeds, collisions, t) ==
    [objects |->
        [k \in 1..Len(speeds) |->
            LET i == k - 1
                start == [object_id |-> i,
                          location |-> <<0 - Spacing * i, 0, 0>>,
                          velocity |-> <<speeds[k], 0, 0>>]
                \* the collisions the object has been in up to frame t
                hits == IF t = 0 THEN 0
                        ELSE Cardinality({c \in 1..Len(collisions) :
                                             /\ collisions[c].frame_id <= t
                                             /\ InList(i, collisions[c].object_ids)})
            IN  [object_id |-> i,
                 location |-> <<start.location[1] + t * (speeds[k] \div 10), 0, 0>>,
                 velocity |-> IF hits = 0 THEN start.velocity
                              ELSE IF IsStationary(start.velocity)
                                   THEN <<hits * FastSpeed, 0, 0>>
                                   ELSE IF hits = 1 THEN <<0, speeds[k], 0>>
                                        ELSE <<0 - speeds[k], 0, 0>>]]]

\* object_property tables: every object with its own description
\* ("distinct"), every object with the same description ("uniform"), or no
\* object listed at all ("empty")
PropertyTable(n, kind) ==
    LET Colors == <<"gray", "red", "blue", "green", "brown", "cyan", "purple",
                    "yellow">>
    IN
    IF kind = "empty" THEN <<>>
    ELSE [k \in 1..n |->
             [object_id |-> k - 1,
              color |-> IF kind = "uniform" THEN "gray"
                        ELSE Colors[((k - 1) % Len(Colors)) + 1],
              material |-> IF kind = "uniform" \/ k % 2 = 1 THEN "rubber" ELSE "metal",
              shape |-> IF kind = "uniform" \/ k % 3 = 1 THEN "cube"
                        ELSE IF k % 3 = 2 THEN "sphere" ELSE "cylinder"]]

\* the simulation record of a scene
Scene(speeds, collisions, kind) ==
    [object_property |-> PropertyTable(Len(speeds), kind),
     motion_trajectory |-> [t \in 1..NumFrames |-> SceneFrame(speeds, collisions, t - 1)],
     collision |-> collisions]

Collision(a, b, f) == [object_ids |-> <<a, b>>, frame_id |-> f]

\* ns stationary objects followed by nm moving objects
LayoutSpeeds(ns, nm) ==
    [k \in 1..(ns + nm) |-> IF k <= ns THEN 0 ELSE FastSpeed]

\* the collisions of a layout: the first mover hits the first stationary
\* object, then the second mover does
LayoutCollisions(ns, nm) ==
    IF ns >= 1 /\ nm >= 2
    THEN <<Collision(ns, 0, 1), Collision(ns + 1, 0, 2)>>
    ELSE IF ns >= 1 /\ nm = 1 THEN <<Collision(ns, 0, 1)>>
    ELSE <<>>

\* the scenes of the whole chain: every layout of up to MaxObjects objects
\* with every kind of object_property table
LayoutScenes ==
    LET Layouts ==
            {l \in (0..MaxStatic) \X (0..MaxMoving) : l[1] + l[2] \in 1..MaxObjects}
    IN  {Scene(LayoutSpeeds(l[1], l[2]), LayoutCollisions(l[1], l[2]), kind) :
            l \in Layouts, kind \in {"distinct", "uniform", "empty"}}

\* a value for a variable not written yet
NoValue == [none |-> TRUE]

\* a call chain that neither writes a questions file nor evaluates one
UnusedFileAndEvaluation ==
    /\ setting_str = NoValue
    /\ questions_file = NoValue
    /\ documents = NoValue
    /\ doc = NoValue
    /\ result_data = NoValue

-----------------------------------------------------------------------------
(* The chain of QAPairGenerator.generate_qa_pairs for one simulation record:
   analyze_scenario, generate_qa_templates, generate_cr_templates *)

Init ==
    /\ scenario_name \in Scenarios
    /\ setting \in SettingType \cup {NoSetting}
    /\ data \in LayoutScenes
    /\ pc = "loaded"
    /\ object_info = NoValue
    /\ analysis = NoValue
    /\ qa_pairs = <<>>
    /\ cr_templates = NoValue
    /\ towards_args = NoValue
    /\ towards_result = FALSE
    /\ UnusedFileAndEvaluation

\* analysis = self.scenario_generator.analyze_scenario(data, self.setting)
CallAnalyzeScenario ==
    /\ pc = "loaded"
    /\ analysis' = AnalyzeScenario(scenario_name, data, setting)
    /\ pc' = "analyzed"
    /\ UNCHANGED <<scenario_name, setting, data, object_info, qa_pairs,
                   cr_templates, towards_args, towards_result,
                   file_vars, eval_vars>>

\* qa_pairs = self.scenario_generator.generate_qa_templates(data, analysis);
\* a ValueError of list.index ends the run (pc = "raised")
CallGenerateQATemplates ==
    /\ pc = "analyzed"
    /\ IF QARolesMissing(scenario_name, analysis)
       THEN qa_pairs' = <<>> /\ pc' = "qa_done"
       ELSE IF QATemplatesRaise(scenario_name, data, analysis, setting)
       THEN qa_pairs' = qa_pairs /\ pc' = "raised"
       ELSE LET x == Descriptions(scenario_name, data, analysis, setting)
                n1 == Len(AttributionOptions(scenario_name, x, setting))
                n2 == Len(ActualCauseOptions(scenario_name, x, setting))
            IN  \E r \in 0..(NumSeeds - 1) :
                    /\ qa_pairs' = GenerateQATemplates(scenario_name, data, analysis,
                                                       setting, SampleOrder(n1, r),
                                                       SampleOrder(n2, r))
                    /\ pc' = "qa_done"
    /\ UNCHANGED <<scenario_name, setting, data, object_info, analysis,
                   cr_templates, towards_args, towards_result,
                   file_vars, eval_vars>>

\* cr_templates = self.scenario_generator.generate_cr_templates(data, analysis)
CallGenerateCRTemplates ==
    /\ pc = "qa_done"
    /\ cr_templates' = GenerateCRTemplates(scenario_name, data, analysis, setting)
    /\ pc' = "cr_done"
    /\ UNCHANGED <<scenario_name, setting, data, object_info, analysis,
                   qa_pairs, towards_args, towards_result,
                   file_vars, eval_vars>>

Next ==
    \/ CallAnalyzeScenario
    \/ CallGenerateQATemplates
    \/ CallGenerateCRTemplates

Spec == Init /\ [][Next]_vars

-----------------------------------------------------------------------------
(* The role identifier on its own: _identify_objects_by_setting for every
   frame zero of up to MaxObjects objects that stand still, move at exactly
   0.01 or move fast *)

InitIdentify ==
    /\ scenario_name \in Scenarios
    /\ setting \in SettingType \cup {NoSetting}
    /\ \E speeds \in UNION {[1..n -> {0, StationarySpeed, FastSpeed}] :
                                n \in 0..MaxObjects} :
           data = [object_property |-> <<>>,
                   motion_trajectory |-> <<SceneFrame(speeds, <<>>, 0)>>,
                   collision |-> <<>>]
    /\ pc = "loaded"
    /\ object_info = NoValue
    /\ analysis = NoValue
    /\ qa_pairs = <<>>
    /\ cr_templates = NoValue
    /\ towards_args = NoValue
    /\ towards_result = FALSE
    /\ UnusedFileAndEvaluation

\* object_info = self._identify_objects_by_setting(trajectory, setting)
CallIdentifyObjects ==
    /\ pc = "loaded"
    /\ object_info' = IdentifyObjectsBySetting(data.motion_trajectory, setting,
                                               scenario_name)
    /\ pc' = "identified"
    /\ UNCHANGED <<scenario_name, setting, data, analysis, qa_pairs,
                   cr_templates, towards_args, towards_result,
                   file_vars, eval_vars>>

SpecIdentify == InitIdentify /\ [][CallIdentifyObjects]_vars

-----------------------------------------------------------------------------
(* The approach test on its own: _is_moving_towards for positions and
   velocities of a small grid *)

\* largest coordinate of a position, in location units
MaxCoord == 2

\* velocities of the other object
OtherVelocities == {<<0, 0, 0>>, <<FastSpeed, 0, 0>>, <<0 - FastSpeed, TowardsSpeed, 0>>}

InitTowards ==
    /\ LET Positions == (0 - MaxCoord..MaxCoord) \X (0 - MaxCoord..MaxCoord) \X {0, 1}
           \* velocity components around the threshold 0.1 (20 units)
           Components == {0 - TowardsSpeed - 1, 0, TowardsSpeed, TowardsSpeed + 1}
       IN  towards_args \in [obj1_pos : {<<0, 0, 0>>, <<1, 0 - 1, 0>>},
                             obj1_vel : Components \X Components \X {0},
                             obj2_pos : Positions,
                             obj2_vel : OtherVelocities]
    /\ towards_result = FALSE
    /\ UnusedFileAndEvaluation
    /\ pc = "loaded"
    /\ scenario_name = "overdetermination"
    /\ setting = NoSetting
    /\ data = NoValue
    /\ object_info = NoValue
    /\ analysis = NoValue
    /\ qa_pairs = <<>>
    /\ cr_templates = NoValue

\* self._is_moving_towards(obj1_pos, obj1_vel, obj2_pos, obj2_vel)
CallIsMovingTowards ==
    /\ pc = "loaded"
    /\ towards_result' = IsMovingTowards(towards_args.obj1_pos, towards_args.obj1_vel,
                                         towards_args.obj2_pos, towards_args.obj2_vel)
    /\ pc' = "returned"
    /\ UNCHANGED <<scenario_name, setting, data, object_info, analysis, qa_pairs,
                   cr_templates, towards_args,
                   file_vars, eval_vars>>

SpecTowards == InitTowards /\ [][CallIsMovingTowards]_vars

-----------------------------------------------------------------------------
(* The analyzers on their own: analyze_scenario for every scenario, every
   setting and scenes of up to MaxAnalyzeObjects objects with up to two
   collisions between any two of them *)

MaxAnalyzeObjects == 4

\* speed of a slow object, in velocity units (0.075: above the 0.05 of a
\* stopped object, below 0.1)
SlowSpeed == 15

\* frame-zero speeds: stationary objects first, then fast ones, and
\* possibly, after one or two stationary objects, a last object moving at
\* exactly 0.01 or, after two stationary objects, a last object moving slowly
AnalyzeSpeeds ==
    UNION {{LayoutSpeeds(ns, n - ns) : ns \in 0..n}
           \cup {LayoutSpeeds(ns, n - 1 - ns) \o <<StationarySpeed>> :
                     ns \in {1, 2} \cap 0..(n - 1)}
           \cup (IF n >= 3 THEN {LayoutSpeeds(2, n - 3) \o <<SlowSpeed>>} ELSE {}) :
           n \in 1..MaxAnalyzeObjects}

\* the collision lists of a scene of n objects: no collision, one collision
\* at frame 1 or two collisions listed in frame order; a scene analysed
\* without a setting, whose roles come from the collisions, has also two
\* collisions at the same frame or against frame order, and two collisions
\* with object 0 at frames 0 and 1 followed by a third collision at frame 2
CollisionLists(n, s) ==
    LET ObjectPairs == {pr \in (0..(n - 1)) \X (0..(n - 1)) : pr[1] < pr[2]}
        InOrder ==
            {<<>>}
            \cup {<<Collision(pr[1], pr[2], 1)>> : pr \in ObjectPairs}
            \cup {<<Collision(p1[1], p1[2], 1), Collision(p2[1], p2[2], 2)>> :
                      p1 \in ObjectPairs, p2 \in ObjectPairs}
    IN  IF SettingIsSet(s) THEN InOrder
        ELSE InOrder
             \cup {<<Collision(p1[1], p1[2], f[1]), Collision(p2[1], p2[2], f[2])>> :
                       p1 \in ObjectPairs, p2 \in ObjectPairs,
                       f \in {<<1, 1>>, <<2, 1>>}}
             \cup {<<Collision(0, a, 0), Collision(0, b, 1), Collision(p3[1], p3[2], 2)>> :
                       a \in 1..(n - 1), b \in 1..(n - 1), p3 \in ObjectPairs}

InitAnalyze ==
    /\ scenario_name \in Scenarios
    /\ setting \in SettingType \cup {NoSetting}
    /\ \E speeds \in AnalyzeSpeeds :
           \E collisions \in CollisionLists(Len(speeds), setting) :
               data = Scene(speeds, collisions, "distinct")
    /\ pc = "loaded"
    /\ object_info = NoValue
    /\ analysis = NoValue
    /\ qa_pairs = <<>>
    /\ cr_templates = NoValue
    /\ towards_args = NoValue
    /\ towards_result = FALSE
    /\ UnusedFileAndEvaluation

SpecAnalyze == InitAnalyze /\ [][CallAnalyzeScenario]_vars

-----------------------------------------------------------------------------
(* The double-prevention analyzer on long trajectories: analyze_scenario
   without a setting on scenes whose first collision comes late enough for
   the lookback of _check_moving_towards_before_collision to be cut at 5
   frames *)

\* frames of a long trajectory
NumLongFrames == 8
\* distance between neighbouring objects of a long scene, in location units
LongSpacing == 100

\* frame t of a long scene: object 0 stands at the origin, object i > 0
\* starts on the x axis at -LongSpacing * i and follows courses[i], advancing
\* by a tenth of its speed per frame in the direction it had
LongSceneFrame(courses, t) ==
    [objects |->
        [k \in 1..(Len(courses) + 1) |->
            LET i == k - 1
                \* a course <<"until", c>> heads along x before frame c and
                \* along y from it, a course <<"from", c>> the other way
                HeadsAlongX(course, s) ==
                    IF course[1] = "until" THEN s < course[2] ELSE s >= course[2]
                along_x == Cardinality({s \in 0..(t - 1) : HeadsAlongX(courses[i], s)})
            IN  IF i = 0
                THEN [object_id |-> 0, location |-> <<0, 0, 0>>,
                      velocity |-> <<0, 0, 0>>]
                ELSE [object_id |-> i,
                      location |-> <<(FastSpeed \div 10) * along_x - LongSpacing * i,
                                     (FastSpeed \div 10) * (t - along_x), 0>>,
                      velocity |-> IF HeadsAlongX(courses[i], t)
                                   THEN <<FastSpeed, 0, 0>>
                                   ELSE <<0, FastSpeed, 0>>]]]

\* a double scene without a setting: object 1 heads for object 0 throughout
\* and strikes it at the last frame; before that, at any frame, two of the
\* objects collide; the movers 2 and up follow any course
InitDouble ==
    /\ scenario_name = "double"
    /\ setting = NoSetting
    /\ \E nm \in {2, 3} :
           \E courses \in [2..nm -> {"until", "from"} \X (0..NumLongFrames)] :
               \E pr \in {<<2, 3>>, <<1, 2>>, <<1, 3>>, <<0, 2>>, <<0, 3>>} :
                   \E f \in 0..(NumLongFrames - 1) :
                       /\ pr[2] <= nm
                       /\ data =
                              [object_property |-> PropertyTable(nm + 1, "distinct"),
                               motion_trajectory |->
                                   [t \in 1..NumLongFrames |->
                                       LongSceneFrame(
                                           [i \in 1..nm |->
                                               IF i = 1 THEN <<"from", 0>>
                                               ELSE courses[i]],
                                           t - 1)],
                               collision |->
                                   <<Collision(pr[1], pr[2], f),
                                     Collision(0, 1, NumLongFrames - 1)>>]
    /\ pc = "loaded"
    /\ object_info = NoValue
    /\ analysis = NoValue
    /\ qa_pairs = <<>>
    /\ cr_templates = NoValue
    /\ towards_args = NoValue
    /\ towards_result = FALSE
    /\ UnusedFileAndEvaluation

SpecDouble == InitDouble /\ [][CallAnalyzeScenario]_vars

-----------------------------------------------------------------------------
(* The evaluation of a questions file: convert_videoac_to_hf_dataset of
   eval/scripts/convert_to_hf_dataset.py, then videoac_process_results of
   eval/tasks/utils.py on one document and one model response.  A response
   is the sequence of the words of its text. *)

\* chr(65 + j)
Chr65(j) ==
    <<"A", "B", "C", "D", "E", "F", "G", "H", "I", "J", "K", "L", "M", "N", "O", "P",
      "Q", "R", "S", "T", "U", "V", "W", "X", "Y", "Z">>[j + 1]

\* the document of qa_pairs[i] (convert_to_hf_dataset.py:31-105, without its
\* id and video_path, which are file names); a dict answer, which the
\* synthesizers give to the actual_cause questions and to no other, is read
\* in the order its keys were inserted
ConvertQA(qa, i) ==
    LET answer_type == qa.answer_type
        options == IF "options" \in DOMAIN qa THEN qa.options ELSE <<>>
        raw_ans == qa.answer
        LettersOf(value) == [m \in 1..Len(value) |-> Chr65(value[m])]
        keys == SelectSeq(<<"HP", "BV", "DBV", "Boc">>,
                          LAMBDA definition : definition \in DOMAIN raw_ans)
        choices ==
            IF answer_type = "yes_no" THEN <<<<"A", "Yes">>, <<"B", "No">>>>
            ELSE IF answer_type = "multi_choice"
            THEN [j \in 1..Len(options) |-> <<Chr65(j - 1), options[j]>>]
            ELSE <<>>
        answer ==
            IF answer_type = "yes_no"
            THEN IF raw_ans = "Yes" THEN <<<<"A">>>>
                 ELSE IF raw_ans = "No" THEN <<<<"B">>>> ELSE <<>>
            ELSE IF answer_type = "multi_choice"
            THEN IF qa.question_type = "actual_cause"
                 THEN [k \in 1..Len(keys) |-> LettersOf(raw_ans[keys[k]])]
                 ELSE [k \in 1..Len(raw_ans) |-> <<Chr65(raw_ans[k])>>]
            ELSE <<>>
    IN  [question |-> qa.question,
         answer |-> answer,
         question_type |-> qa.question_type,
         question_rung |-> qa.question_rung,
         answer_type |-> answer_type,
         n |-> i,
         choices |-> choices]

\* videoac_process_results(doc, results), utils.py:107-176
VideoacProcessResults(d, result) ==
    LET \* the words that str.isupper() and str.isalpha() accept, among the
        \* words of the responses
        UpperAlphaWords == {Chr65(j) : j \in 0..25} \cup {"END", "AB"}
        markers == {k \in 1..Len(result) : result[k] = "Answer:"}
        first == CHOOSE k \in markers : \A j \in markers : k <= j
        next == IF \E k \in markers : k > first
                THEN CHOOSE k \in markers : k > first /\ \A j \in markers : j > first => k <= j
                ELSE Len(result) + 1
        \* parts[1].strip()
        part == SubSeq(result, first + 1, next - 1)
        \* .replace(" END", "").split()
        words == IF part = <<>> THEN <<>>
                 ELSE <<Head(part)>> \o SelectSeq(Tail(part), LAMBDA w : w # "END")
        parsed == IF markers = {} THEN <<>>
                  ELSE SelectSeq(words, LAMBDA w : w \in UpperAlphaWords)
        valid_letters == {Chr65(i - 1) : i \in 1..Len(d.choices)}
        answer_letters ==
            IF parsed # <<>> /\ Len(d.choices) > 0
            THEN SelectSeq(parsed, LAMBDA letter : letter \in valid_letters)
            ELSE parsed
        expected == d.answer
        expected_sets == [k \in 1..Len(expected) |-> Elems(expected[k])]
        answer_set == Elems(answer_letters)
        accuracy ==
            IF expected # <<>> /\ answer_letters # <<>>
            THEN IF d.question_type = "actual_cause" /\ Len(expected_sets) = 4
                 THEN [k \in 1..4 |-> IF expected_sets[k] = answer_set THEN 1 ELSE 0]
                 ELSE <<IF expected_sets[1] = answer_set THEN 1 ELSE 0>>
            ELSE <<>>
    IN  [answer |-> answer_letters,
         raw_result |-> result,
         accuracy |-> accuracy,
         question |-> d.question,
         question_rung |-> d.question_rung,
         question_type |-> d.question_type,
         options |-> d.choices]

\* outcomes of the random generator of the evaluated question lists
EvalSeeds == 2

InitEval ==
    /\ scenario_name \in Scenarios
    /\ setting \in {NoSetting, "add_one_static", "add_one_moving"}
    /\ \E l \in {<<1, 2>>, <<2, 3>>} :
           data = Scene(LayoutSpeeds(l[1], l[2]), LayoutCollisions(l[1], l[2]), "distinct")
    /\ pc = "questions_written"
    /\ object_info = NoValue
    /\ analysis = AnalyzeScenario(scenario_name, data, setting)
    /\ ~QARolesMissing(scenario_name, analysis)
    /\ ~QATemplatesRaise(scenario_name, data, analysis, setting)
    /\ LET x == Descriptions(scenario_name, data, analysis, setting)
           n1 == Len(AttributionOptions(scenario_name, x, setting))
           n2 == Len(ActualCauseOptions(scenario_name, x, setting))
       IN  \E r \in 0..(EvalSeeds - 1) :
               qa_pairs = GenerateQATemplates(scenario_name, data, analysis, setting,
                                              SampleOrder(n1, r), SampleOrder(n2, r))
    /\ cr_templates = NoValue
    /\ towards_args = NoValue
    /\ towards_result = FALSE
    /\ UnusedFileAndEvaluation

\* convert_videoac_to_hf_dataset: one document per question, numbered from 0
CallConvertVideoacToHFDataset ==
    /\ pc = "questions_written"
    /\ documents' = [i \in 1..Len(qa_pairs) |-> ConvertQA(qa_pairs[i], i - 1)]
    /\ pc' = "converted"
    /\ UNCHANGED <<scenario_name, setting, data, object_info, analysis, qa_pairs,
                   cr_templates, towards_args, towards_result, file_vars,
                   doc, result_data>>

\* videoac_process_results on one document and one response: an answer of
\* no, one or two of the document's letters closed by END, or a text without
\* the marker, in lower case, with a letter no choice carries, with a word
\* after END, with two letters in one word
CallVideoacProcessResults ==
    /\ pc = "converted"
    /\ \E i \in 1..Len(documents) :
           LET letters == {documents[i].choices[j][1] : j \in 1..Len(documents[i].choices)}
               Answers == {<<>>} \cup {<<a>> : a \in letters}
                              \cup {<<a, b>> : a \in letters, b \in letters}
               Responses == {<<"Answer:">> \o w \o <<"END">> : w \in Answers}
                                \cup {<<"The", "answer", "is", "A">>,
                                      <<"Answer:", "a", "END">>,
                                      <<"Answer:", "A", "Z", "END">>,
                                      <<"Answer:", "B", "END", "A">>,
                                      <<"Answer:", "AB">>}
           IN  \E result \in Responses :
                   /\ doc' = documents[i]
                   /\ result_data' = VideoacProcessResults(documents[i], result)
    /\ pc' = "scored"
    /\ UNCHANGED <<scenario_name, setting, data, object_info, analysis, qa_pairs,
                   cr_templates, towards_args, towards_result, file_vars,
                   documents>>

SpecEval ==
    InitEval /\ [][CallConvertVideoacToHFDataset \/ CallVideoacProcessResults]_vars

-----------------------------------------------------------------------------
(* The late scenario on scenes in which the stationary objects need not
   carry the lowest ids: the whole chain of generate_qa_pairs on one scene. *)

\* the largest number of objects of a scene of the late scenario
MaxLateObjects == 4

\* the scenes of the late scenario: one or two objects stationary at frame
\* zero and at least two moving; a moving object strikes a stationary one
\* at frame 1, and possibly another moving object strikes the same one at
\* frame 2
LateScenes ==
    LET LateSpeeds ==
            {speeds \in UNION {[1..n -> {0, FastSpeed}] : n \in 3..MaxLateObjects} :
                /\ Cardinality({k \in DOMAIN speeds : speeds[k] = 0}) \in {1, 2}
                /\ Cardinality({k \in DOMAIN speeds : speeds[k] # 0}) >= 2}
        LateCollisions(speeds) ==
            LET ids == 0..(Len(speeds) - 1)
                movers == {i \in ids : speeds[i + 1] # 0}
                still == {i \in ids : speeds[i + 1] = 0}
            IN  {<<Collision(m, s, 1)>> : m \in movers, s \in still}
                \cup {<<Collision(pr[1], s, 1), Collision(pr[2], s, 2)>> :
                         pr \in {q \in movers \X movers : q[1] # q[2]}, s \in still}
    IN  UNION {{Scene(speeds, collisions, "distinct") :
                   collisions \in LateCollisions(speeds)} : speeds \in LateSpeeds}

InitLate ==
    /\ scenario_name = "late"
    /\ setting \in SettingType \cup {NoSetting}
    /\ data \in LateScenes
    /\ pc = "loaded"
    /\ object_info = NoValue
    /\ analysis = NoValue
    /\ qa_pairs = <<>>
    /\ cr_templates = NoValue
    /\ towards_args = NoValue
    /\ towards_result = FALSE
    /\ UnusedFileAndEvaluation

SpecLate == InitLate /\ [][Next]_vars

-----------------------------------------------------------------------------
(* The orchestrator, generator.py: the constructor of QAPairGenerator and
   one round of the loop of generate_qa_pairs over one scene, whose last
   step writes the questions file.  The names of the files and the index of
   the scene are left out. *)

\* _parse_setting, generator.py:54-66
ParseSetting(str) == IF str \in SettingType THEN str ELSE NoSetting

\* __init__: self.setting = self._parse_setting(setting) if setting else None
ConstructedSetting(str) ==
    IF str = NoSetting \/ str = "" THEN NoSetting ELSE ParseSetting(str)

\* a variant of the setting entry: the setting as it is, without 'basic'
SettingValueWithoutDefault(s) == s

\* self.setting.value if self.setting else "basic"
SettingValue(s) == IF SettingIsSet(s) THEN s ELSE "basic"

\* video_qa_data of generate_qa_pairs
VideoQAData(name, d, s, pairs, templates) ==
    [video_info |-> [scenario |-> name,
                     setting |-> SettingValue(s),
                     total_frames |-> Len(d.motion_trajectory)],
     qa_pairs |-> pairs,
     causal_graph |-> templates.causal_graph,
     twin_network |-> templates.twin_network,
     generation_metadata |->
         [scenario |-> name,
          setting |-> SettingValue(s),
          total_questions |-> Len(pairs),
          question_types |-> {pairs[i].question_type : i \in 1..Len(pairs)},
          answer_types |-> {pairs[i].answer_type : i \in 1..Len(pairs)}]]

\* the setting strings handed to the constructor: none, the empty string, the
\* four settings and two strings outside them
InitGenerate ==
    /\ scenario_name \in Scenarios
    /\ setting_str \in {NoSetting, ""} \cup SettingType \cup {"add_three_static", "basic"}
    /\ setting = ConstructedSetting(setting_str)
    /\ \E l \in {q \in (0..MaxStatic) \X (0..MaxMoving) : q[1] + q[2] \in 1..MaxObjects} :
           data = Scene(LayoutSpeeds(l[1], l[2]), LayoutCollisions(l[1], l[2]), "distinct")
    /\ pc = "loaded"
    /\ object_info = NoValue
    /\ analysis = NoValue
    /\ qa_pairs = <<>>
    /\ cr_templates = NoValue
    /\ towards_args = NoValue
    /\ towards_result = FALSE
    /\ questions_file = NoValue
    /\ documents = NoValue /\ doc = NoValue /\ result_data = NoValue

\* `if not qa_pairs: continue`, else _save_qa_pairs_to_json(video_qa_data, ...)
\* and the video_info added to every question of the returned list
SaveQAPairs ==
    /\ pc = "cr_done"
    /\ IF qa_pairs = <<>>
       THEN /\ pc' = "skipped"
            /\ UNCHANGED <<questions_file, qa_pairs>>
       ELSE /\ questions_file' = VideoQAData(scenario_name, data, setting,
                                             qa_pairs, cr_templates)
            /\ qa_pairs' = [i \in 1..Len(qa_pairs) |->
                               [video_info |-> questions_file'.video_info]
                                   @@ qa_pairs[i]]
            /\ pc' = "saved"
    /\ UNCHANGED <<scenario_name, setting, data, object_info, analysis,
                   cr_templates, towards_args, towards_result, setting_str,
                   eval_vars>>

SpecGenerate == InitGenerate /\ [][Next \/ SaveQAPairs]_vars

-----------------------------------------------------------------------------
(* Properties of the kinematic primitives and of the role identifier *)

\* C10: _is_moving_towards(posA, velA, posB, velB) is true iff A and B do
\* not coincide and the dot product of velA with the unit vector from A to
\* B is strictly greater than 0.1 (for the integer dot product d and squared
\* distance m: d > 0 and d * d > 20 * 20 * m); it is false when A and B
\* coincide; and the result is the same for every velB.
C10_MovingTowardsIffClosingSpeedAboveThreshold ==
    pc = "returned" =>
        LET direction == Sub(towards_args.obj2_pos, towards_args.obj1_pos)
            m == Dot(direction, direction)
            dot == Dot(towards_args.obj1_vel, direction)
        IN  /\ towards_result <=>
                   (m # 0 /\ dot > 0 /\ dot * dot > TowardsSpeed * TowardsSpeed * m)
            /\ (towards_args.obj1_pos = towards_args.obj2_pos => ~towards_result)
            /\ \A velB \in OtherVelocities :
                   IsMovingTowards(towards_args.obj1_pos, towards_args.obj1_vel,
                                   towards_args.obj2_pos, velB) = towards_result

\* a call that returned true although B moves, off the axes
C10_WitnessApproachOfMovingTarget ==
    /\ pc = "returned"
    /\ towards_result
    /\ towards_args.obj2_vel = <<FastSpeed, 0, 0>>
    /\ towards_args.obj1_pos # <<0, 0, 0>>
    /\ towards_args.obj2_pos[1] # towards_args.obj1_pos[1]
    /\ towards_args.obj2_pos[2] # towards_args.obj1_pos[2]

\* C8: _identify_objects_by_setting partitions the frame-zero ids, in frame
\* order, into stationary (speed < 0.01) and moving; when the counts for the
\* (scenario, setting) pair are met it returns the first k ids of the
\* relevant list as primary and the next j ids as distractors (static
\* settings: k = 2 for bogus/early, else 1; moving settings: k = 3 for
\* double, else 2; j = 1 or 2), leaving the other list whole; otherwise it
\* returns the whole lists and empty distractor lists.
C8_IdentifierSlicesFirstKThenNextJ ==
    pc = "identified" =>
        LET first_frame == data.motion_trajectory[1].objects
            Ids(sel) == [i \in 1..Len(sel) |-> sel[i].object_id]
            stationary == Ids(SelectSeq(first_frame, LAMBDA obj :
                              Dot(obj.velocity, obj.velocity) < 4))
            moving == Ids(SelectSeq(first_frame, LAMBDA obj :
                              Dot(obj.velocity, obj.velocity) >= 4))
            static_setting == setting \in {ADD_ONE_STATIC, ADD_TWO_STATIC}
            k == IF static_setting
                 THEN (IF scenario_name \in {"bogus", "early"} THEN 2 ELSE 1)
                 ELSE (IF scenario_name = "double" THEN 3 ELSE 2)
            j == IF setting \in {ADD_ONE_STATIC, ADD_ONE_MOVING} THEN 1 ELSE 2
            met == /\ setting \in SettingType
                   /\ IF static_setting
                      THEN Len(stationary) >= k + j /\ Len(moving) >= 2
                      ELSE Len(stationary) >= 1 /\ Len(moving) >= k + j
        IN  IF met /\ static_setting
            THEN /\ object_info.static_objects = SubSeq(stationary, 1, k)
                 /\ object_info.added_static = SubSeq(stationary, k + 1, k + j)
                 /\ object_info.moving_objects = moving
                 /\ object_info.added_moving = <<>>
            ELSE IF met
            THEN /\ object_info.moving_objects = SubSeq(moving, 1, k)
                 /\ object_info.added_moving = SubSeq(moving, k + 1, k + j)
                 /\ object_info.static_objects = stationary
                 /\ object_info.added_static = <<>>
            ELSE /\ object_info.static_objects = stationary
                 /\ object_info.moving_objects = moving
                 /\ object_info.added_static = <<>>
                 /\ object_info.added_moving = <<>>

\* the identifier has sliced two distractors off a frame zero in which
\* stationary and moving objects are interleaved
C8_WitnessTwoStaticDistractorsSliced ==
    /\ pc = "identified"
    /\ scenario_name = "bogus"
    /\ setting = ADD_TWO_STATIC
    /\ Len(object_info.added_static) = 2
    /\ object_info.added_static[1] > object_info.moving_objects[1]
    /\ object_info.static_objects[1] < object_info.moving_objects[1]

-----------------------------------------------------------------------------
(* Properties of the analysis records *)

\* C7: in every analysis record each non-null primary role id and each id
\* of added_static / added_moving is an object id of frame zero, and no id
\* bound to a primary role is also in added_static or added_moving.
C7_RolesInFrameZeroAndDisjointFromDistractors ==
    pc = "analyzed" =>
        LET first_frame == data.motion_trajectory[1].objects
            frame_zero_ids == {first_frame[k].object_id : k \in 1..Len(first_frame)}
            primary ==
                (IF scenario_name \in {"early", "bogus"}
                 THEN {analysis.M1, analysis.M2, analysis.S1, analysis.S2}
                 ELSE IF scenario_name = "double"
                 THEN {analysis.M1, analysis.M2, analysis.M3, analysis.S}
                 ELSE {analysis.M1, analysis.M2, analysis.S}) \ {None}
            distractors == Elems(analysis.added_static) \cup Elems(analysis.added_moving)
        IN  /\ primary \subseteq frame_zero_ids
            /\ distractors \subseteq frame_zero_ids
            /\ primary \cap distractors = {}

\* C9: an object is stationary at frame zero iff its speed is strictly
\* below 0.01, an object at exactly 0.01 is moving, and every analyzer uses
\* this classification: a stationary role is bound to a stationary object,
\* and the late analyzer without a setting binds M2 to the first moving
\* object of frame zero other than M1 and S (None only when there is none).
C9_OneStationaryClassificationInEveryAnalyzer ==
    pc = "analyzed" =>
        LET first_frame == data.motion_trajectory[1].objects
            Speed2(id) == LET obj == FirstOf(first_frame, id)
                          IN  Dot(obj.velocity, obj.velocity)
            stationary_roles ==
                (IF scenario_name \in {"early", "bogus"}
                 THEN {analysis.S1, analysis.S2} ELSE {analysis.S}) \ {None}
            movers == {k \in 1..Len(first_frame) :
                          /\ Dot(first_frame[k].velocity, first_frame[k].velocity) >= 4
                          /\ first_frame[k].object_id \notin {analysis.M1, analysis.S}}
        IN  /\ \A id \in stationary_roles : Speed2(id) < 4
            /\ (scenario_name = "late" /\ setting = NoSetting /\ analysis.S # None) =>
                   IF movers = {} THEN analysis.M2 = None
                   ELSE analysis.M2 =
                            first_frame[CHOOSE k \in movers :
                                            \A j \in movers : k <= j].object_id

-----------------------------------------------------------------------------
(* Properties of the synthesized question-answer pairs *)

\* C1: for every scenario, setting and order the shuffle produces, each
\* multi-choice pair returned by generate_qa_templates has answer indices
\* that are valid 0-based places of its options list, and the set of option
\* strings at those places equals the set of correct-answer strings written
\* before the shuffle (for the actual_cause pair: for each definition).
C1_AnswerIndicesSelectTheCorrectStrings ==
    pc \in {"qa_done", "cr_done"} =>
        \A i \in 1..Len(qa_pairs) :
            qa_pairs[i].answer_type = "multi_choice" =>
                LET qa == qa_pairs[i]
                    x == Descriptions(scenario_name, data, analysis, setting)
                    places == 0..(Len(qa.options) - 1)
                    Selected(indices) ==
                        {qa.options[k + 1] : k \in Elems(indices) \cap places}
                IN  IF qa.question_type = "causal_attribution"
                    THEN /\ Elems(qa.answer) \subseteq places
                         /\ Selected(qa.answer) =
                                Elems(AttributionCorrect(scenario_name, x))
                    ELSE LET mapping == ActualCauseMapping(scenario_name, x)
                         IN  \A definition \in DOMAIN mapping :
                                 /\ Elems(qa.answer[definition]) \subseteq places
                                 /\ Selected(qa.answer[definition]) =
                                        Elems(mapping[definition])

\* a causal_attribution pair of a scene with a distractor whose options were
\* reordered by the shuffle, so that a correct answer left its place
C1_WitnessReorderedAttributionOptions ==
    /\ pc = "qa_done"
    /\ setting = ADD_ONE_STATIC
    /\ \E i \in 1..Len(qa_pairs) :
           /\ qa_pairs[i].answer_type = "multi_choice"
           /\ qa_pairs[i].question_type = "causal_attribution"
           /\ LET x == Descriptions(scenario_name, data, analysis, setting)
                  written == AttributionOptions(scenario_name, x, setting)
                  correct == AttributionCorrect(scenario_name, x)
              IN  /\ Len(qa_pairs[i].options) >= 4
                  /\ qa_pairs[i].answer #
                         AnswerIndices(written, correct)

\* C2: the actual_cause pair of every scenario has one options list, a
\* reordering of the list written before the single shuffle, and an answer
\* map with exactly the keys HP, BV, DBV and Boc; for each key the index
\* list is ascending and its places hold, in that one list, exactly the
\* strings the definition designates; definitions designating the same
\* strings have the same index list and definitions designating different
\* strings have different index lists.
C2_ActualCauseAnswerKeyedByDefinition ==
    pc \in {"qa_done", "cr_done"} =>
        \A i \in 1..Len(qa_pairs) :
            qa_pairs[i].question_type = "actual_cause" =>
                LET qa == qa_pairs[i]
                    x == Descriptions(scenario_name, data, analysis, setting)
                    written == ActualCauseOptions(scenario_name, x, setting)
                    mapping == ActualCauseMapping(scenario_name, x)
                    places == 0..(Len(qa.options) - 1)
                    Count(list, str) ==
                        Cardinality({k \in 1..Len(list) : list[k] = str})
                    Selected(indices) ==
                        {qa.options[k + 1] : k \in Elems(indices) \cap places}
                IN  /\ DOMAIN qa.answer = {"HP", "BV", "DBV", "Boc"}
                    /\ Len(qa.options) = Len(written)
                    /\ \A str \in Elems(written) \cup Elems(qa.options) :
                           Count(qa.options, str) = Count(written, str)
                    /\ \A definition \in DOMAIN qa.answer :
                           LET indices == qa.answer[definition]
                           IN  /\ Elems(indices) \subseteq places
                               /\ \A k \in 1..(Len(indices) - 1) :
                                      indices[k] <= indices[k + 1]
                               /\ Selected(indices) = Elems(mapping[definition])
                    /\ \A d1, d2 \in DOMAIN qa.answer :
                           (Elems(mapping[d1]) = Elems(mapping[d2]))
                               <=> (Elems(qa.answer[d1]) = Elems(qa.answer[d2]))
                    /\ \A d1, d2 \in DOMAIN qa.answer :
                           mapping[d1] = mapping[d2] => qa.answer[d1] = qa.answer[d2]

\* an actual_cause pair whose options were reordered by the shuffle, with
\* two definitions sharing an index list and two definitions differing
C2_WitnessSharedAndDistinctIndexLists ==
    /\ pc = "qa_done"
    /\ \E i \in 1..Len(qa_pairs) :
           /\ qa_pairs[i].question_type = "actual_cause"
           /\ LET x == Descriptions(scenario_name, data, analysis, setting)
              IN  qa_pairs[i].options #
                      ActualCauseOptions(scenario_name, x, setting)
           /\ \E d1, d2 \in DOMAIN qa_pairs[i].answer :
                  d1 # d2 /\ qa_pairs[i].answer[d1] = qa_pairs[i].answer[d2]
           /\ \E d1, d2 \in DOMAIN qa_pairs[i].answer :
                  qa_pairs[i].answer[d1] # qa_pairs[i].answer[d2]

-----------------------------------------------------------------------------
(* Properties of the chain on scenes with too few objects *)

\* C3: for each of the six scenarios, when a primary role of the analysis
\* record (M1, M2, S; M1, M2, S1, S2 for early and bogus; M1, M2, M3, S for
\* double) is null and frame zero holds fewer stationary or moving objects
\* than the primary roles need, generate_qa_templates returns an empty list
\* and generate_cr_templates returns a null causal_graph and a null
\* twin_network, and neither raises.
C3_AnyUnresolvedPrimaryRoleGivesEmptyResults ==
    LET first_frame == data.motion_trajectory[1].objects
        still == {k \in 1..Len(first_frame) :
                     Dot(first_frame[k].velocity, first_frame[k].velocity) < 4}
        ns == Cardinality(still)
        nm == Len(first_frame) - ns
        need_static == IF scenario_name \in {"early", "bogus"} THEN 2 ELSE 1
        need_moving == IF scenario_name = "double" THEN 3 ELSE 2
        primary == IF scenario_name \in {"early", "bogus"}
                   THEN {analysis.M1, analysis.M2, analysis.S1, analysis.S2}
                   ELSE IF scenario_name = "double"
                   THEN {analysis.M1, analysis.M2, analysis.M3, analysis.S}
                   ELSE {analysis.M1, analysis.M2, analysis.S}
    IN  (/\ pc \in {"qa_done", "cr_done", "raised"}
         /\ None \in primary
         /\ (ns < need_static \/ nm < need_moving)) =>
            /\ pc # "raised"
            /\ qa_pairs = <<>>
            /\ pc = "cr_done" =>
                   /\ cr_templates.causal_graph = NullModel
                   /\ cr_templates.twin_network = NullModel

\* C3 as amended: the same, for the roles the synthesizer and the encoder of
\* the scenario test: all primary roles, except that the late scenario tests
\* only M1 and S (a null M2 is described as 'another object').
C3_UnresolvedTestedRoleGivesEmptyResults ==
    LET first_frame == data.motion_trajectory[1].objects
        still == {k \in 1..Len(first_frame) :
                     Dot(first_frame[k].velocity, first_frame[k].velocity) < 4}
        ns == Cardinality(still)
        nm == Len(first_frame) - ns
        need_static == IF scenario_name \in {"early", "bogus"} THEN 2 ELSE 1
        need_moving == IF scenario_name = "double" THEN 3 ELSE 2
        tested == IF scenario_name \in {"early", "bogus"}
                  THEN {analysis.M1, analysis.M2, analysis.S1, analysis.S2}
                  ELSE IF scenario_name = "double"
                  THEN {analysis.M1, analysis.M2, analysis.M3, analysis.S}
                  ELSE IF scenario_name = "late"
                  THEN {analysis.M1, analysis.S}
                  ELSE {analysis.M1, analysis.M2, analysis.S}
    IN  (/\ pc \in {"qa_done", "cr_done", "raised"}
         /\ None \in tested
         /\ (ns < need_static \/ nm < need_moving)) =>
            /\ pc # "raised"
            /\ qa_pairs = <<>>
            /\ pc = "cr_done" =>
                   /\ cr_templates.causal_graph = NullModel
                   /\ cr_templates.twin_network = NullModel

\* the chain has ended with empty results for a scene whose stationary role
\* is bound while a moving role is null
C3_WitnessPartlyBoundRolesGiveNullModel ==
    /\ pc = "cr_done"
    /\ scenario_name = "double"
    /\ analysis.S # None
    /\ analysis.M3 = None
    /\ qa_pairs = <<>>
    /\ cr_templates.causal_graph = NullModel
    /\ cr_templates.twin_network = NullModel

\* C4: when a distractor setting is active and frame zero has too few
\* objects for it, so that added_static and added_moving are empty while the
\* primary roles are bound, the chain analyze_scenario ->
\* generate_qa_templates -> generate_cr_templates does not raise.
C4_TooFewObjectsForSettingNeverRaises ==
    LET primary == IF scenario_name \in {"early", "bogus"}
                   THEN {analysis.M1, analysis.M2, analysis.S1, analysis.S2}
                   ELSE IF scenario_name = "double"
                   THEN {analysis.M1, analysis.M2, analysis.M3, analysis.S}
                   ELSE {analysis.M1, analysis.M2, analysis.S}
    IN  (/\ pc \in {"qa_done", "cr_done", "raised"}
         /\ setting \in SettingType
         /\ analysis.added_static = <<>>
         /\ analysis.added_moving = <<>>
         /\ None \notin primary) =>
            pc # "raised"

-----------------------------------------------------------------------------
(* Properties of the causal graph and of the twin network *)

\* C5: for every scenario and setting, whenever generate_cr_templates
\* returns a causal graph that is not null, each edge is 'A -> B' for two
\* keys A and B of the graph's variables map.
C5_EdgeEndpointsAreDeclaredVariables ==
    (pc = "cr_done" /\ cr_templates.causal_graph # NullModel) =>
        LET graph == cr_templates.causal_graph
        IN  \A k \in 1..Len(graph.edges) :
                \E a, b \in DOMAIN graph.variables :
                    graph.edges[k] = a \o " -> " \o b

\* a graph with two distractor indicators and at least five edges
C5_WitnessGraphWithDistractorVariables ==
    /\ pc = "cr_done"
    /\ setting = ADD_TWO_STATIC
    /\ cr_templates.causal_graph # NullModel
    /\ Len(cr_templates.causal_graph.edges) >= 5
    /\ {"S1", "S2"} \subseteq DOMAIN cr_templates.causal_graph.variables

\* C6: with a distractor setting active and k = 1 or 2 distractors in the
\* analysis, against the output without a setting on the same roles: the
\* variables map has every old key with its old description and exactly k
\* new keys, the edge list is the same, and the factual world string and
\* every counterfactual world string is the old string followed by exactly
\* k indicator assignments ', <new key>=1', one per new key.
C6_DistractorsOnlyExtendTheCausalModel ==
    (/\ pc = "cr_done"
     /\ setting \in SettingType
     /\ cr_templates.causal_graph # NullModel
     /\ Len(analysis.added_static) + Len(analysis.added_moving) \in {1, 2}) =>
        LET k == Len(analysis.added_static) + Len(analysis.added_moving)
            base == GenerateCRTemplates(scenario_name, data, analysis, NoSetting)
            graph == cr_templates.causal_graph
            twin == cr_templates.twin_network
            old == DOMAIN base.causal_graph.variables
            new == DOMAIN graph.variables \ old
            Assign(key) == ", " \o key \o "=1"
            suffixes == IF k = 1 THEN {Assign(a) : a \in new}
                        ELSE {Assign(pr[1]) \o Assign(pr[2]) :
                                  pr \in {q \in new \X new : q[1] # q[2]}}
            Extends(str, was) == \E suffix \in suffixes : str = was \o suffix
        IN  /\ old \subseteq DOMAIN graph.variables
            /\ Cardinality(new) = k
            /\ \A key \in old : graph.variables[key] = base.causal_graph.variables[key]
            /\ graph.edges = base.causal_graph.edges
            /\ Extends(twin.factual_world, base.twin_network.factual_world)
            /\ DOMAIN twin.counterfactual_world =
                   DOMAIN base.twin_network.counterfactual_world
            /\ \A world \in DOMAIN twin.counterfactual_world :
                   Extends(twin.counterfactual_world[world],
                           base.twin_network.counterfactual_world[world])

\* the double scenario encoded with two moving distractors
C6_WitnessTwoMovingDistractorsEncoded ==
    /\ pc = "cr_done"
    /\ scenario_name = "double"
    /\ setting = ADD_TWO_MOVING
    /\ Len(analysis.added_moving) = 2
    /\ cr_templates.causal_graph # NullModel
    /\ {"M1", "M2"} \subseteq DOMAIN cr_templates.causal_graph.variables

-----------------------------------------------------------------------------
(* Properties of the overdetermination analyzer *)

\* C11: overdetermination analyzer without a setting: when object 0 is
\* stationary in frame zero, objects 1 and 2 are moving and the collision
\* list holds a collision of {0, 1} and a collision of {0, 2} at frames at
\* most 2 apart, the analysis record has S = 0, {M1, M2} = {1, 2} and
\* simultaneous_collision = True.
C11_TwoStrikesOnObjectZeroAreSimultaneous ==
    LET first_frame == data.motion_trajectory[1].objects
        Speed2(k) == Dot(first_frame[k].velocity, first_frame[k].velocity)
        Strikes(i) == {k \in 1..Len(data.collision) :
                          Elems(data.collision[k].object_ids) = {0, i}}
        Apart(a, b) == IF a >= b THEN a - b ELSE b - a
    IN  (/\ pc = "analyzed"
         /\ scenario_name = "overdetermination"
         /\ setting = NoSetting
         /\ Len(first_frame) >= 3
         /\ Speed2(1) < 4 /\ Speed2(2) >= 4 /\ Speed2(3) >= 4
         /\ \E k1 \in Strikes(1), k2 \in Strikes(2) :
                Apart(data.collision[k1].frame_id, data.collision[k2].frame_id) <= 2) =>
            /\ analysis.S = 0
            /\ {analysis.M1, analysis.M2} = {1, 2}
            /\ analysis.simultaneous_collision

-----------------------------------------------------------------------------
(* Properties of the bogus analyzer *)

\* C12: bogus analyzer: whenever M2, S1 and S2 are bound, the least distance
\* of M2 to S2 over all frames is above 0.5 and the speed of M2 in the last
\* frame is below 0.1, the analysis record has m2_insufficient_momentum =
\* True and its event log contains an insufficient_momentum event for M2
\* whose frame is the first frame at which the speed of M2 is below 0.05
\* while its distance to S2 is above 0.3.
C12_InsufficientMomentumFlaggedAndLogged ==
    (pc = "analyzed" /\ scenario_name = "bogus") =>
        LET trajectory == data.motion_trajectory
            M2 == analysis.M2
            S2 == analysis.S2
            Speed2(i) == LET v == FirstOf(trajectory[i + 1].objects, M2).velocity
                         IN  Dot(v, v)
            Dist2(i) == LET a == FirstOf(trajectory[i + 1].objects, M2).location
                            b == FirstOf(trajectory[i + 1].objects, S2).location
                        IN  Dot(Sub(a, b), Sub(a, b))
            frames == 0..(Len(trajectory) - 1)
            Stopped(i) == Speed2(i) < 100 /\ Dist2(i) > 9
            FirstStopped(i) ==
                i \in frames /\ Stopped(i) /\ \A j \in 0..(i - 1) : ~Stopped(j)
        IN  (/\ M2 # None /\ analysis.S1 # None /\ S2 # None
             /\ \A i \in frames : Dist2(i) > 25
             /\ Speed2(Len(trajectory) - 1) < 400) =>
                /\ analysis.m2_insufficient_momentum
                /\ \E k \in 1..Len(analysis.events) :
                       /\ analysis.events[k].type = "insufficient_momentum"
                       /\ analysis.events[k].subject = M2
                       /\ FirstStopped(analysis.events[k].frame)

-----------------------------------------------------------------------------
(* Properties of the question templates *)

\* C13, as stated: every pair returned by a synthesizer has question_rung in
\* {discovery, intervention, counterfactual} and answer_type in {yes_no,
\* multi_choice}; the sequence of (question_type, question_rung, answer_type)
\* triples of the returned list is the one of the scenario's template for
\* every scene and every setting, the scenes whose roles are unresolved
\* included; a yes_no pair has answer 'Yes' or 'No' and no options, a
\* multi_choice pair carries an options list.
C13_EveryReturnedListFollowsTheTemplate ==
    pc \in {"qa_done", "cr_done"} =>
        LET Triples(pairs) ==
                [i \in 1..Len(pairs) |->
                    <<pairs[i].question_type, pairs[i].question_rung,
                      pairs[i].answer_type>>]
            roles == [M1 |-> 1, M2 |-> 2, M3 |-> 3, S |-> 0, S1 |-> 0, S2 |-> 4,
                      added_static |-> <<>>, added_moving |-> <<>>]
            x == Descriptions(scenario_name, Scene(<<0>>, <<>>, "empty"), roles,
                              NoSetting)
            template ==
                QAPairs(scenario_name, x,
                        AttributionOptions(scenario_name, x, NoSetting),
                        ActualCauseOptions(scenario_name, x, NoSetting))
        IN  /\ Triples(qa_pairs) = Triples(template)
            /\ \A i \in 1..Len(qa_pairs) :
                   LET qa == qa_pairs[i]
                   IN  /\ qa.question_rung \in
                              {"discovery", "intervention", "counterfactual"}
                       /\ qa.answer_type \in {"yes_no", "multi_choice"}
                       /\ qa.answer_type = "yes_no" =>
                              /\ qa.answer \in {"Yes", "No"}
                              /\ "options" \notin DOMAIN qa
                       /\ qa.answer_type = "multi_choice" =>
                              /\ "options" \in DOMAIN qa
                              /\ DOMAIN qa.options = 1..Len(qa.options)

\* C13, amended: the same, for every returned list that is not empty (a
\* synthesizer returns the empty list when a role it tests is unresolved).
C13_TemplateFixesRungAndAnswerType ==
    (pc \in {"qa_done", "cr_done"} /\ qa_pairs # <<>>) =>
        LET Triples(pairs) ==
                [i \in 1..Len(pairs) |->
                    <<pairs[i].question_type, pairs[i].question_rung,
                      pairs[i].answer_type>>]
            roles == [M1 |-> 1, M2 |-> 2, M3 |-> 3, S |-> 0, S1 |-> 0, S2 |-> 4,
                      added_static |-> <<>>, added_moving |-> <<>>]
            x == Descriptions(scenario_name, Scene(<<0>>, <<>>, "empty"), roles,
                              NoSetting)
            template ==
                QAPairs(scenario_name, x,
                        AttributionOptions(scenario_name, x, NoSetting),
                        ActualCauseOptions(scenario_name, x, NoSetting))
        IN  /\ Triples(qa_pairs) = Triples(template)
            /\ \A i \in 1..Len(qa_pairs) :
                   LET qa == qa_pairs[i]
                   IN  /\ qa.question_rung \in
                              {"discovery", "intervention", "counterfactual"}
                       /\ qa.answer_type \in {"yes_no", "multi_choice"}
                       /\ qa.answer_type = "yes_no" =>
                              /\ qa.answer \in {"Yes", "No"}
                              /\ "options" \notin DOMAIN qa
                       /\ qa.answer_type = "multi_choice" =>
                              /\ "options" \in DOMAIN qa
                              /\ DOMAIN qa.options = 1..Len(qa.options)

\* the questions of a scene with a static distractor, the multi_choice
\* pairs with more options than without a setting
C13_WitnessQuestionsOfADistractorScene ==
    /\ pc = "qa_done"
    /\ setting = ADD_ONE_STATIC
    /\ Len(analysis.added_static) = 1
    /\ \E i, j \in 1..Len(qa_pairs) :
           /\ qa_pairs[i].answer_type = "multi_choice"
           /\ Len(qa_pairs[i].options) >= 4
           /\ qa_pairs[j].answer_type = "yes_no"
           /\ qa_pairs[j].question_rung = "counterfactual"

-----------------------------------------------------------------------------
(* Properties of the event log *)

\* C14: in the event log of every analysis record the frame index never
\* decreases along the list, the collision events taken from the input
\* included: for any two events at positions i < j, the frame of the first is
\* at most the frame of the second.
C14_EventLogOrderedByFrame ==
    pc = "analyzed" =>
        \A i, j \in 1..Len(analysis.events) :
            i < j => analysis.events[i].frame <= analysis.events[j].frame

\* C15: for every analyzer and every input, the collision events of the
\* returned event log are the input collision records, one event per record
\* in input order, each with the record's frame_id and object_ids, none
\* filtered out, whether or not the primary roles could be bound.
C15_OneCollisionEventPerInputCollision ==
    pc = "analyzed" =>
        LET IsCollision(e) == e.type = "collision"
            logged == SelectSeq(analysis.events, IsCollision)
        IN  /\ Len(logged) = Len(data.collision)
            /\ \A k \in 1..Len(logged) :
                   /\ logged[k].frame = data.collision[k].frame_id
                   /\ logged[k].subjects = data.collision[k].object_ids

\* C16, as stated: each first-occurrence latch fires at most once per
\* analysis: an event log has at most one speed_increase event (switch), at
\* most one trajectory_deviation event (double) and at most one
\* insufficient_momentum event (bogus), each at the first frame where its
\* condition holds, however many later frames satisfy the condition; a
\* moving_towards event is emitted at every frame where the approach test of
\* one of the scenario's subject-target pairs holds, and only there.
C16_LatchesFireOnceApproachesAtEveryFrame ==
    pc = "analyzed" =>
        LET trajectory == data.motion_trajectory
            events == analysis.events
            r == analysis
            Frames == 0..(Len(trajectory) - 1)
            Velocity(i, o) == FrameObject(trajectory[i + 1], o).velocity
            Location(i, o) == FrameObject(trajectory[i + 1], o).location
            Bound(o) == o # None
            \* switch.py:137, double.py:189-192, bogus.py:204-210
            SpeedsUp(i) ==
                /\ Bound(r.M1) /\ i > 0
                /\ 4 * VelocityMagnitudeSq(Velocity(i, r.M1))
                       > 9 * VelocityMagnitudeSq(Velocity(i - 1, r.M1))
            Deviates(i) ==
                /\ Bound(r.M2) /\ i > 0
                /\ DirectionChanged(Velocity(i, r.M2), Velocity(i - 1, r.M2))
            Stops(i) ==
                /\ Bound(r.M2) /\ Bound(r.S2)
                /\ VelocityMagnitudeSq(Velocity(i, r.M2)) < StoppedSpeed * StoppedSpeed
                /\ DistanceSq(Location(i, r.M2), Location(i, r.S2))
                       > StoppingDistance * StoppingDistance
            Latched(type, subject, Holds(_)) ==
                LET fired == {k \in 1..Len(events) : events[k].type = type}
                IN  /\ Cardinality(fired) <= 1
                    /\ \A k \in fired :
                           /\ events[k].subject = subject
                           /\ Holds(events[k].frame)
                           /\ \A j \in 0..(events[k].frame - 1) : ~Holds(j)
                    /\ (\E i \in Frames : Holds(i)) => fired # {}
            Approaches(i, a, b) ==
                /\ Bound(a) /\ Bound(b)
                /\ IsMovingTowards(Location(i, a), Velocity(i, a),
                                   Location(i, b), Velocity(i, b))
            Pairs ==
                CASE scenario_name = "overdetermination" -> {<<r.M1, r.S>>, <<r.M2, r.S>>}
                  [] scenario_name = "switch" -> {<<r.M1, r.S>>, <<r.M2, r.M1>>}
                  [] scenario_name = "late" -> {<<r.M1, r.S>>, <<r.M2, r.S>>}
                  [] scenario_name = "early" -> {<<r.M1, r.S1>>, <<r.M2, r.S2>>}
                  [] scenario_name = "double" ->
                         {<<r.M1, r.S>>, <<r.M2, r.M1>>, <<r.M3, r.M2>>}
                  [] scenario_name = "bogus" -> {<<r.M1, r.S2>>, <<r.M2, r.S2>>}
            Logged(i, pr) ==
                \E k \in 1..Len(events) :
                    /\ events[k].type = "moving_towards"
                    /\ events[k].frame = i
                    /\ events[k].subject = pr[1]
                    /\ events[k].target = pr[2]
        IN  /\ scenario_name = "switch" => Latched("speed_increase", r.M1, SpeedsUp)
            /\ scenario_name = "double" => Latched("trajectory_deviation", r.M2, Deviates)
            /\ scenario_name = "bogus" => Latched("insufficient_momentum", r.M2, Stops)
            /\ \A k \in 1..Len(events) :
                   /\ events[k].type = "speed_increase" => scenario_name = "switch"
                   /\ events[k].type = "trajectory_deviation" => scenario_name = "double"
                   /\ events[k].type = "insufficient_momentum" => scenario_name = "bogus"
            /\ \A i \in Frames, pr \in Pairs :
                   Logged(i, pr) <=> (/\ Approaches(i, pr[1], pr[2])
                                     )

\* C16, amended: the same, except that the double analyzer stops emitting the
\* approach events of M2 toward M1 after the frame at which M2 has deviated
\* from its trajectory.
C16_LatchesFireOnceApproachesUntilDeviation ==
    pc = "analyzed" =>
        LET trajectory == data.motion_trajectory
            events == analysis.events
            r == analysis
            Frames == 0..(Len(trajectory) - 1)
            Velocity(i, o) == FrameObject(trajectory[i + 1], o).velocity
            Location(i, o) == FrameObject(trajectory[i + 1], o).location
            Bound(o) == o # None
            \* switch.py:137, double.py:189-192, bogus.py:204-210
            SpeedsUp(i) ==
                /\ Bound(r.M1) /\ i > 0
                /\ 4 * VelocityMagnitudeSq(Velocity(i, r.M1))
                       > 9 * VelocityMagnitudeSq(Velocity(i - 1, r.M1))
            Deviates(i) ==
                /\ Bound(r.M2) /\ i > 0
                /\ DirectionChanged(Velocity(i, r.M2), Velocity(i - 1, r.M2))
            Stops(i) ==
                /\ Bound(r.M2) /\ Bound(r.S2)
                /\ VelocityMagnitudeSq(Velocity(i, r.M2)) < StoppedSpeed * StoppedSpeed
                /\ DistanceSq(Location(i, r.M2), Location(i, r.S2))
                       > StoppingDistance * StoppingDistance
            Latched(type, subject, Holds(_)) ==
                LET fired == {k \in 1..Len(events) : events[k].type = type}
                IN  /\ Cardinality(fired) <= 1
                    /\ \A k \in fired :
                           /\ events[k].subject = subject
                           /\ Holds(events[k].frame)
                           /\ \A j \in 0..(events[k].frame - 1) : ~Holds(j)
                    /\ (\E i \in Frames : Holds(i)) => fired # {}
            Approaches(i, a, b) ==
                /\ Bound(a) /\ Bound(b)
                /\ IsMovingTowards(Location(i, a), Velocity(i, a),
                                   Location(i, b), Velocity(i, b))
            Pairs ==
                CASE scenario_name = "overdetermination" -> {<<r.M1, r.S>>, <<r.M2, r.S>>}
                  [] scenario_name = "switch" -> {<<r.M1, r.S>>, <<r.M2, r.M1>>}
                  [] scenario_name = "late" -> {<<r.M1, r.S>>, <<r.M2, r.S>>}
                  [] scenario_name = "early" -> {<<r.M1, r.S1>>, <<r.M2, r.S2>>}
                  [] scenario_name = "double" ->
                         {<<r.M1, r.S>>, <<r.M2, r.M1>>, <<r.M3, r.M2>>}
                  [] scenario_name = "bogus" -> {<<r.M1, r.S2>>, <<r.M2, r.S2>>}
            Logged(i, pr) ==
                \E k \in 1..Len(events) :
                    /\ events[k].type = "moving_towards"
                    /\ events[k].frame = i
                    /\ events[k].subject = pr[1]
                    /\ events[k].target = pr[2]
        IN  /\ scenario_name = "switch" => Latched("speed_increase", r.M1, SpeedsUp)
            /\ scenario_name = "double" => Latched("trajectory_deviation", r.M2, Deviates)
            /\ scenario_name = "bogus" => Latched("insufficient_momentum", r.M2, Stops)
            /\ \A k \in 1..Len(events) :
                   /\ events[k].type = "speed_increase" => scenario_name = "switch"
                   /\ events[k].type = "trajectory_deviation" => scenario_name = "double"
                   /\ events[k].type = "insufficient_momentum" => scenario_name = "bogus"
            /\ \A i \in Frames, pr \in Pairs :
                   Logged(i, pr) <=> (/\ Approaches(i, pr[1], pr[2])
                                     /\ ~(scenario_name = "double" /\ pr = <<r.M2, r.M1>>
                                          /\ \E j \in 0..(i - 1) : Deviates(j))
                                     )

\* a double scene in which M2 changes direction at two frames, logged once,
\* and heads for M1 after the first change
C16_WitnessSecondDeviationNotLogged ==
    /\ pc = "analyzed"
    /\ scenario_name = "double"
    /\ analysis.M1 # None /\ analysis.M2 # None
    /\ LET trajectory == data.motion_trajectory
           Velocity(i) == FrameObject(trajectory[i + 1], analysis.M2).velocity
           Target(i) == FrameObject(trajectory[i + 1], analysis.M1)
           Self(i) == FrameObject(trajectory[i + 1], analysis.M2)
       IN  /\ DirectionChanged(Velocity(1), Velocity(0))
           /\ DirectionChanged(Velocity(2), Velocity(1))
           /\ IsMovingTowards(Self(2).location, Self(2).velocity,
                              Target(2).location, Target(2).velocity)
    /\ Cardinality({k \in 1..Len(analysis.events) :
                       analysis.events[k].type = "trajectory_deviation"}) = 1

-----------------------------------------------------------------------------
(* Properties of the role binding *)

\* C17: overdetermination analyzer: simultaneous_collision is True only if
\* M1 and M2 each take part in a collision whose other participant is S and
\* the collisions of the scene fall on at most two distinct frame indices.
C17_SimultaneousOnlyWhenBothStrikeS ==
    (/\ pc = "analyzed"
     /\ scenario_name = "overdetermination"
     /\ analysis.simultaneous_collision) =>
        LET Strikes(m) ==
                \E k \in 1..Len(data.collision) :
                    /\ m # analysis.S
                    /\ Elems(data.collision[k].object_ids) = {m, analysis.S}
        IN  /\ Strikes(analysis.M1)
            /\ Strikes(analysis.M2)
            /\ Cardinality({data.collision[k].frame_id :
                               k \in 1..Len(data.collision)}) <= 2

\* C18: when a setting is supplied, every analyzer binds its primary roles
\* to the role identifier's primary ids in fixed order (S, or S1 and S2, to
\* the first stationary ids; M1, M2 and, in double, M3 to the first moving
\* ids), whatever the collision list holds.
C18_SettingBindsRolesFromIdentifierOnly ==
    (pc = "analyzed" /\ SettingIsSet(setting)) =>
        LET info == IdentifyObjectsBySetting(data.motion_trajectory, setting,
                                             scenario_name)
            static_roles ==
                IF scenario_name \in {"early", "bogus"}
                THEN <<analysis.S1, analysis.S2>> ELSE <<analysis.S>>
            moving_roles ==
                IF scenario_name = "double"
                THEN <<analysis.M1, analysis.M2, analysis.M3>>
                ELSE <<analysis.M1, analysis.M2>>
        IN  /\ Len(info.static_objects) >= Len(static_roles) =>
                   \A k \in 1..Len(static_roles) :
                       static_roles[k] = info.static_objects[k]
            /\ Len(info.moving_objects) >= Len(moving_roles) =>
                   \A k \in 1..Len(moving_roles) :
                       moving_roles[k] = info.moving_objects[k]

\* C19: early-preemption analyzer, no setting: if among the moving-stationary
\* collisions there are two, taken in increasing frame order, with distinct
\* movers and distinct targets, each mover heading for its target at frame
\* zero, and mover 2, target 2, target 1 collinear at frame zero with target 2
\* between the other two, the roles are bound to such a pair; the earliest
\* two moving-stationary collisions are used only when there is no such
\* combination.
C19_EarlyRolesFromAnAcceptedPair ==
    (/\ pc = "analyzed"
     /\ scenario_name = "early"
     /\ setting = NoSetting) =>
        LET first_frame == data.motion_trajectory[1].objects
            static_objects == StaticObjects(first_frame)
            moving_objects == MovingObjects(first_frame)
            ms_collisions ==
                MovingStaticCollisions(SortedByFrame(data.collision),
                                       moving_objects, static_objects)
            Roles(i, j) == EarlyPairRoles(ms_collisions[i], ms_collisions[j],
                                          moving_objects, static_objects)
            Combinations == {pr \in (1..Len(ms_collisions)) \X (1..Len(ms_collisions)) :
                                /\ pr[1] < pr[2]
                                /\ EarlyPairAccepted(first_frame, Roles(pr[1], pr[2]))}
            BoundTo(r) == /\ analysis.M1 = r.M1 /\ analysis.S1 = r.S1
                          /\ analysis.M2 = r.M2 /\ analysis.S2 = r.S2
        IN  /\ Combinations # {} =>
                   \E pr \in Combinations : BoundTo(Roles(pr[1], pr[2]))
            /\ (Combinations = {} /\ Len(ms_collisions) >= 2
                /\ Len(static_objects) >= 2 /\ Len(moving_objects) >= 2) =>
                   BoundTo(Roles(1, 2))

\* C20: switch analyzer, no setting, a stationary object S in frame zero: the
\* collisions are ordered by frame_id (collisions of one frame in their input
\* order); with at least two collisions M1 is a participant of the second
\* collision that is not S, M2 a participant of the first collision that is
\* not M1, and M1 # S and M2 # M1; with fewer than two collisions M1 and M2
\* stay null.
C20_SwitchRolesFromSortedCollisions ==
    (/\ pc = "analyzed"
     /\ scenario_name = "switch"
     /\ setting = NoSetting
     /\ analysis.S # None) =>
        LET seq == analysis.collision_sequence
            AtFrame(s, f) == SelectSeq(s, LAMBDA c : c.frame_id = f)
        IN  /\ Len(seq) = Len(data.collision)
            /\ \A i, j \in 1..Len(seq) : i < j => seq[i].frame_id <= seq[j].frame_id
            /\ \A f \in 0..(Len(data.motion_trajectory) - 1) :
                   AtFrame(seq, f) = AtFrame(data.collision, f)
            /\ Len(seq) >= 2 =>
                   /\ InList(analysis.M1, seq[2].object_ids)
                   /\ analysis.M1 # analysis.S
                   /\ InList(analysis.M2, seq[1].object_ids)
                   /\ analysis.M2 # analysis.M1
                   /\ analysis.S \in Elems(seq[2].object_ids) =>
                          Elems(seq[2].object_ids) = {analysis.S, analysis.M1}
            /\ Len(seq) < 2 => (analysis.M1 = None /\ analysis.M2 = None)

\* a switch scene whose two collisions are listed against their frame order
\* and whose second collision in frame order is the one with S
C20_WitnessLaterCollisionListedFirst ==
    /\ pc = "analyzed"
    /\ scenario_name = "switch"
    /\ setting = NoSetting
    /\ analysis.S # None
    /\ Len(data.collision) = 2
    /\ data.collision[1].frame_id > data.collision[2].frame_id
    /\ InList(analysis.S, data.collision[1].object_ids)
    /\ InList(analysis.M1, data.collision[1].object_ids)
    /\ InList(analysis.M1, data.collision[2].object_ids)
    /\ analysis.M2 \notin {None, analysis.S, analysis.M1}

-----------------------------------------------------------------------------
(* Properties of the double-prevention and late-preemption role binding *)

\* C21, as stated: double-prevention analyzer, no setting, at least two
\* collisions: of the two participants of the earliest collision, the one
\* that was heading for the final striker M1 in none of the up to 5 frames
\* right before that collision is bound to M3 and the other, which was
\* heading for it in one of them, to M2; no frame below 0 and no frame at or
\* after the collision frame counts.
C21_InterfererIsTheOneNotHeadingForM1 ==
    (/\ pc = "analyzed"
     /\ scenario_name = "double"
     /\ setting = NoSetting
     /\ Len(data.collision) >= 2) =>
        LET trajectory == data.motion_trajectory
            S == StaticObjects(trajectory[1].objects)[1]
            earliest == CHOOSE k \in 1..Len(data.collision) :
                            \A j \in 1..Len(data.collision) :
                                \/ data.collision[k].frame_id < data.collision[j].frame_id
                                \/ /\ data.collision[k].frame_id = data.collision[j].frame_id
                                   /\ k <= j
            second == CHOOSE k \in 1..Len(data.collision) :
                          /\ k # earliest
                          /\ \A j \in (1..Len(data.collision)) \ {earliest} :
                                 \/ data.collision[k].frame_id < data.collision[j].frame_id
                                 \/ /\ data.collision[k].frame_id = data.collision[j].frame_id
                                    /\ k <= j
            collision_frame == data.collision[earliest].frame_id
            target == FirstOtherThan(data.collision[second].object_ids, S)
            Lookback == {i \in 0..(Len(trajectory) - 1) :
                            i < collision_frame /\ i >= collision_frame - 5}
            Heading(o) ==
                \E i \in Lookback :
                    IsMovingTowards(FrameObject(trajectory[i + 1], o).location,
                                    FrameObject(trajectory[i + 1], o).velocity,
                                    FrameObject(trajectory[i + 1], target).location,
                                    FrameObject(trajectory[i + 1], target).velocity)
            a == data.collision[earliest].object_ids[1]
            b == data.collision[earliest].object_ids[2]
        IN  /\ (Heading(a) /\ ~Heading(b)) => (analysis.M2 = a /\ analysis.M3 = b)
            /\ (Heading(b) /\ ~Heading(a)) => (analysis.M2 = b /\ analysis.M3 = a)

\* C21, amended: the same, in a scene whose frame zero has a stationary
\* object and at least three moving objects.
C21_InterfererNotHeadingInSceneOfThreeMovers ==
    (/\ pc = "analyzed"
     /\ scenario_name = "double"
     /\ setting = NoSetting
     /\ StaticObjects(data.motion_trajectory[1].objects) # <<>>
     /\ Len(MovingObjects(data.motion_trajectory[1].objects)) >= 3
     /\ Len(data.collision) >= 2) =>
        LET trajectory == data.motion_trajectory
            S == StaticObjects(trajectory[1].objects)[1]
            earliest == CHOOSE k \in 1..Len(data.collision) :
                            \A j \in 1..Len(data.collision) :
                                \/ data.collision[k].frame_id < data.collision[j].frame_id
                                \/ /\ data.collision[k].frame_id = data.collision[j].frame_id
                                   /\ k <= j
            second == CHOOSE k \in 1..Len(data.collision) :
                          /\ k # earliest
                          /\ \A j \in (1..Len(data.collision)) \ {earliest} :
                                 \/ data.collision[k].frame_id < data.collision[j].frame_id
                                 \/ /\ data.collision[k].frame_id = data.collision[j].frame_id
                                    /\ k <= j
            collision_frame == data.collision[earliest].frame_id
            target == FirstOtherThan(data.collision[second].object_ids, S)
            Lookback == {i \in 0..(Len(trajectory) - 1) :
                            i < collision_frame /\ i >= collision_frame - 5}
            Heading(o) ==
                \E i \in Lookback :
                    IsMovingTowards(FrameObject(trajectory[i + 1], o).location,
                                    FrameObject(trajectory[i + 1], o).velocity,
                                    FrameObject(trajectory[i + 1], target).location,
                                    FrameObject(trajectory[i + 1], target).velocity)
            a == data.collision[earliest].object_ids[1]
            b == data.collision[earliest].object_ids[2]
        IN  /\ (Heading(a) /\ ~Heading(b)) => (analysis.M2 = a /\ analysis.M3 = b)
            /\ (Heading(b) /\ ~Heading(a)) => (analysis.M2 = b /\ analysis.M3 = a)

\* a first collision at frame 6 or later one of whose participants headed
\* for M1 only more than 5 frames before it, and is bound to M3
C21_WitnessHeadingBeforeTheLookback ==
    /\ pc = "analyzed"
    /\ scenario_name = "double"
    /\ data.collision[1].frame_id >= 6
    /\ analysis.M1 = 1
    /\ analysis.M3 \in {2, 3}
    /\ analysis.M2 \in {2, 3}
    /\ LET Towards(o, i) ==
               IsMovingTowards(FrameObject(data.motion_trajectory[i + 1], o).location,
                               FrameObject(data.motion_trajectory[i + 1], o).velocity,
                               FrameObject(data.motion_trajectory[i + 1], 1).location,
                               FrameObject(data.motion_trajectory[i + 1], 1).velocity)
       IN  /\ Towards(analysis.M3, 0)
           /\ \A i \in 1..(data.collision[1].frame_id - 1) : ~Towards(analysis.M3, i)
           /\ Towards(analysis.M2, data.collision[1].frame_id - 1)

\* C22: late-preemption analyzer, no setting: M1 is the moving participant of
\* the earliest collision (in frame order) between a moving object and the
\* stationary object S, and M2 is a frame-zero moving object other than M1
\* and S that takes part in no collision of the scene.
C22_LateStrikerOfSAndUninvolvedMover ==
    (/\ pc = "analyzed"
     /\ scenario_name = "late"
     /\ setting = NoSetting
     /\ analysis.S # None) =>
        LET first_frame == data.motion_trajectory[1].objects
            moving_objects == MovingObjects(first_frame)
            S == analysis.S
            Strikes == {k \in 1..Len(data.collision) :
                           \E m \in Elems(moving_objects) :
                               Elems(data.collision[k].object_ids) = {m, S}}
            Earliest(k) ==
                \A j \in Strikes :
                    \/ data.collision[k].frame_id < data.collision[j].frame_id
                    \/ /\ data.collision[k].frame_id = data.collision[j].frame_id
                       /\ k <= j
        IN  /\ \A k \in Strikes :
                   Earliest(k) =>
                       Elems(data.collision[k].object_ids) = {analysis.M1, S}
            /\ analysis.M2 # None =>
                   /\ InList(analysis.M2, moving_objects)
                   /\ analysis.M2 \notin {analysis.M1, S}
                   /\ \A k \in 1..Len(data.collision) :
                          ~InList(analysis.M2, data.collision[k].object_ids)

-----------------------------------------------------------------------------
\* the letters of the correct options of the scored question
CorrectLetters == {Chr65(qa_pairs[doc.n + 1].answer[k]) :
                      k \in 1..Len(qa_pairs[doc.n + 1].answer)}

(* C23: a multi-choice question that is not an actual_cause question is
   scored 1 exactly when the set of letters parsed from the response equals
   the set of the letters of all the correct options, and 0 otherwise, also
   when two options are correct. *)
C23_StrictMatchOnAllCorrectLetters ==
    (pc = "scored" /\ doc.answer_type = "multi_choice"
        /\ doc.question_type # "actual_cause" /\ result_data.accuracy # <<>>)
        => (result_data.accuracy =
                <<IF Elems(result_data.answer) = CorrectLetters THEN 1 ELSE 0>>)

-----------------------------------------------------------------------------
\* the names of the primary roles of a scenario
PrimaryRoles(name) ==
    CASE name = "overdetermination" -> {"S", "M1", "M2"}
      [] name = "switch" -> {"M1", "M2", "S"}
      [] name = "late" -> {"S", "M1", "M2"}
      [] name = "early" -> {"S1", "S2", "M1", "M2"}
      [] name = "double" -> {"M1", "M2", "M3", "S"}
      [] name = "bogus" -> {"S", "M1", "M2"}

(* C24: whenever the analysis record binds every primary role of its
   scenario, the roles are bound to pairwise distinct object ids, with and
   without a setting. *)
C24_PrimaryRolesPairwiseDistinct ==
    (pc = "analyzed" /\ \A role \in PrimaryRoles(scenario_name) : analysis[role] # None)
        => \A r1, r2 \in PrimaryRoles(scenario_name) :
               r1 # r2 => analysis[r1] # analysis[r2]

-----------------------------------------------------------------------------
\* the number of times x occurs in lst
Occurrences(x, lst) == Cardinality({i \in 1..Len(lst) : lst[i] = x})

\* lst1 is a permutation of lst2
IsPermutation(lst1, lst2) ==
    /\ Len(lst1) = Len(lst2)
    /\ \A x \in Elems(lst1) \cup Elems(lst2) : Occurrences(x, lst1) = Occurrences(x, lst2)

\* an index list that rises strictly, holds n indices and stays within the
\* places of the options
IsAnswerIndexList(indices, n, options) ==
    /\ Len(indices) = n
    /\ \A k \in 1..Len(indices) : indices[k] \in 0..(Len(options) - 1)
    /\ \A k \in 1..(Len(indices) - 1) : indices[k] < indices[k + 1]

(* C25: for every multi-choice question and every property table, the
   returned options are a permutation of the options before the shuffle, and
   each answer index list is strictly increasing, holds one index per correct
   answer string and only indices of the options. *)
C25_OptionsPermutedAnswersStrictlyIncreasing ==
    (pc \in {"qa_done", "cr_done"} /\ qa_pairs # <<>>) =>
        LET x == Descriptions(scenario_name, data, analysis, setting)
            mapping == ActualCauseMapping(scenario_name, x)
        IN  \A i \in 1..Len(qa_pairs) :
                LET qa == qa_pairs[i]
                IN  qa.answer_type = "multi_choice" =>
                        IF qa.question_type = "actual_cause"
                        THEN /\ IsPermutation(qa.options,
                                    ActualCauseOptions(scenario_name, x, setting))
                             /\ \A definition \in DOMAIN mapping :
                                    IsAnswerIndexList(qa.answer[definition],
                                        Len(mapping[definition]), qa.options)
                        ELSE /\ IsPermutation(qa.options,
                                    AttributionOptions(scenario_name, x, setting))
                             /\ IsAnswerIndexList(qa.answer,
                                    Len(AttributionCorrect(scenario_name, x)), qa.options)

-----------------------------------------------------------------------------
\* the pieces of the string str between the occurrences of sep
RECURSIVE SplitOn(_, _)
SplitOn(str, sep) ==
    LET hits == {i \in 1..(Len(str) - Len(sep) + 1) :
                    SubSeq(str, i, i + Len(sep) - 1) = sep}
        i == CHOOSE h \in hits : \A g \in hits : h <= g
    IN  IF hits = {} THEN <<str>>
        ELSE <<SubSeq(str, 1, i - 1)>>
                 \o SplitOn(SubSeq(str, i + Len(sep), Len(str)), sep)

\* the variables a world string 'V1=a, V2=b' assigns, in its order; a piece
\* that is not an assignment is kept whole
AssignedVariables(world) ==
    LET pieces == SplitOn(world, ", ")
    IN  [k \in 1..Len(pieces) |->
            IF Len(SplitOn(pieces[k], "=")) = 2 THEN SplitOn(pieces[k], "=")[1]
            ELSE pieces[k]]

\* the variables a key 'do(V1=a, V2=b)' intervenes on
IntervenedVariables(key) == Elems(AssignedVariables(SubSeq(key, 4, Len(key) - 1)))

\* the list names every member of the set once and nothing else
NamesEachOnce(lst, set) ==
    /\ Elems(lst) = set
    /\ \A j, k \in 1..Len(lst) : lst[j] = lst[k] => j = k

(* C26: in every twin network that is not null, the factual world assigns
   each variable declared in the causal graph exactly once and no other, each
   counterfactual world assigns exactly the declared variables that its
   do(...) key does not intervene on, each once, and every variable of a
   do(...) key is declared. *)
C26_WorldsAssignTheDeclaredVariables ==
    (pc = "cr_done" /\ cr_templates.twin_network # NullModel) =>
        LET declared == DOMAIN cr_templates.causal_graph.variables
            twin == cr_templates.twin_network
        IN  /\ NamesEachOnce(AssignedVariables(twin.factual_world), declared)
            /\ \A key \in DOMAIN twin.counterfactual_world :
                   /\ SubSeq(key, 1, 3) = "do(" /\ SubSeq(key, Len(key), Len(key)) = ")"
                   /\ IntervenedVariables(key) \subseteq declared
                   /\ NamesEachOnce(AssignedVariables(twin.counterfactual_world[key]),
                                    declared \ IntervenedVariables(key))

\* the bogus scenario encoded with two static distractors: a key with two
\* interventions and worlds of five variables
C26_WitnessTwoInterventionsTwoDistractors ==
    /\ pc = "cr_done"
    /\ scenario_name = "bogus"
    /\ cr_templates.twin_network # NullModel
    /\ Cardinality(DOMAIN cr_templates.causal_graph.variables) = 7
    /\ \E key \in DOMAIN cr_templates.twin_network.counterfactual_world :
           /\ Cardinality(IntervenedVariables(key)) = 2
           /\ Len(AssignedVariables(cr_templates.twin_network.counterfactual_world[key])) = 5

-----------------------------------------------------------------------------
\* the string sub occurs in the string str
Contains(str, sub) ==
    \E i \in 1..(Len(str) - Len(sub) + 1) : SubSeq(str, i, i + Len(sub) - 1) = sub

\* the questions and options of the question list, and the descriptions of
\* the variables of the causal graph
TextsOfQuestions(pairs) ==
    UNION {{pairs[i].question}
           \cup (IF "options" \in DOMAIN pairs[i] THEN Elems(pairs[i].options) ELSE {}) :
           i \in 1..Len(pairs)}

TextsOfGraph(graph) == {graph.variables[v] : v \in DOMAIN graph.variables}

(* C27: in the late scenario, whenever M2 is bound to an object id,
   object 0 too, no question, option or variable description holds the
   placeholder 'another object', and those that mention M2 carry the
   description of that object. *)
C27_PlaceholderOnlyWhenM2IsNull ==
    (scenario_name = "late" /\ pc \in {"qa_done", "cr_done"} /\ analysis.M2 # None) =>
        LET m2_desc == GetObjectDescription(analysis.M2, data.object_property)
        IN  /\ \A text \in TextsOfQuestions(qa_pairs) : ~Contains(text, "another object")
            /\ qa_pairs # <<>> =>
                   \E text \in TextsOfQuestions(qa_pairs) : Contains(text, m2_desc)
            /\ (pc = "cr_done" /\ cr_templates.causal_graph # NullModel) =>
                   /\ \A text \in TextsOfGraph(cr_templates.causal_graph) :
                          ~Contains(text, "another object")
                   /\ \E text \in TextsOfGraph(cr_templates.causal_graph) :
                          Contains(text, m2_desc)

-----------------------------------------------------------------------------
(* C28: in the event log of the double analyzer, once the
   trajectory_deviation event of M2 is logged at frame d, no moving_towards
   event of M2 toward M1 is logged for a frame after d, while the approaches
   of M1 toward S and of M3 toward M2 are logged after d as before; the flag
   trajectory_deviation of the record is TRUE exactly when the log holds a
   trajectory_deviation event. *)
C28_NoApproachOfM2AfterItsDeviation ==
    (pc = "analyzed" /\ scenario_name = "double") =>
        LET trajectory == data.motion_trajectory
            events == analysis.events
            r == analysis
            Frames == 0..(Len(trajectory) - 1)
            deviations == {k \in 1..Len(events) : events[k].type = "trajectory_deviation"}
            Approaches(i, a, b) ==
                /\ a # None /\ b # None
                /\ IsMovingTowards(FrameObject(trajectory[i + 1], a).location,
                                   FrameObject(trajectory[i + 1], a).velocity,
                                   FrameObject(trajectory[i + 1], b).location,
                                   FrameObject(trajectory[i + 1], b).velocity)
            Logged(i, a, b) ==
                \E k \in 1..Len(events) :
                    /\ events[k].type = "moving_towards"
                    /\ events[k].frame = i
                    /\ events[k].subject = a
                    /\ events[k].target = b
        IN  /\ r.trajectory_deviation = (deviations # {})
            /\ \A k \in deviations :
                   /\ events[k].subject = r.M2
                   /\ \A i \in Frames : i > events[k].frame =>
                          /\ ~Logged(i, r.M2, r.M1)
                          /\ Approaches(i, r.M1, r.S) => Logged(i, r.M1, r.S)
                          /\ Approaches(i, r.M3, r.M2) => Logged(i, r.M3, r.M2)

\* M2 deviates and heads for M1 again at a later frame, at which the
\* approach of another role is logged
C28_WitnessApproachAfterDeviationNotLogged ==
    /\ pc = "analyzed"
    /\ scenario_name = "double"
    /\ analysis.M1 # None /\ analysis.M2 # None /\ analysis.S # None
    /\ analysis.M1 # analysis.M2
    /\ analysis.trajectory_deviation = TRUE
    /\ \E k \in 1..Len(analysis.events) :
           /\ analysis.events[k].type = "trajectory_deviation"
           /\ \E i \in (analysis.events[k].frame + 1)..(Len(data.motion_trajectory) - 1) :
                  /\ IsMovingTowards(
                         FrameObject(data.motion_trajectory[i + 1], analysis.M2).location,
                         FrameObject(data.motion_trajectory[i + 1], analysis.M2).velocity,
                         FrameObject(data.motion_trajectory[i + 1], analysis.M1).location,
                         FrameObject(data.motion_trajectory[i + 1], analysis.M1).velocity)
                  /\ \E j \in 1..Len(analysis.events) :
                         /\ analysis.events[j].type = "moving_towards"
                         /\ analysis.events[j].frame = i
                         /\ analysis.events[j].subject # analysis.M2

-----------------------------------------------------------------------------
\* the pairs <<from, to>> of the edge strings 'from -> to'
EdgePairs(edges) == [k \in 1..Len(edges) |-> SplitOn(edges[k], " -> ")]

\* the vertices reached from v along at least one and at most n edges
RECURSIVE ReachedWithin(_, _, _)
ReachedWithin(v, pairs, n) ==
    IF n = 0 THEN {}
    ELSE LET next == {pairs[k][2] : k \in {j \in 1..Len(pairs) : pairs[j][1] = v}}
         IN  next \cup UNION {ReachedWithin(w, pairs, n - 1) : w \in next}

(* C29: every causal graph that is not null is a directed acyclic graph
   without self-loop and without repeated edge, Y has no outgoing edge, every
   variable that is not a distractor's indicator has a directed path to Y,
   and every indicator variable of a distractor is the endpoint of no
   edge. *)
C29_CausalGraphIsADagIntoY ==
    (pc = "cr_done" /\ cr_templates.causal_graph # NullModel) =>
        LET graph == cr_templates.causal_graph
            declared == DOMAIN graph.variables
            pairs == EdgePairs(graph.edges)
            n == Len(pairs)
            own == DOMAIN GenerateCRTemplates(scenario_name, data, analysis,
                                              NoSetting).causal_graph.variables
            Reached(v) == ReachedWithin(v, pairs, n)
        IN  /\ \A k \in 1..n :
                   /\ Len(pairs[k]) = 2
                   /\ pairs[k][1] \in declared /\ pairs[k][2] \in declared
                   /\ pairs[k][1] # pairs[k][2]
                   /\ pairs[k][1] # "Y"
                   /\ pairs[k][1] \in own /\ pairs[k][2] \in own
                   /\ \A j \in 1..n : pairs[j] = pairs[k] => j = k
            /\ \A v \in declared : v \notin Reached(v)
            /\ \A v \in own \ {"Y"} : "Y" \in Reached(v)
            /\ "Y" \in own /\ own \subseteq declared

\* the double scenario encoded with two static distractors: seven edges
\* over seven variables, and two indicator variables
C29_WitnessChainOfThreeWithDistractors ==
    /\ pc = "cr_done"
    /\ scenario_name = "double"
    /\ setting = ADD_TWO_STATIC
    /\ cr_templates.causal_graph # NullModel
    /\ Len(cr_templates.causal_graph.edges) = 7
    /\ Cardinality(DOMAIN cr_templates.causal_graph.variables) = 9
    /\ "Y" \in ReachedWithin("Z3", EdgePairs(cr_templates.causal_graph.edges), 7)

-----------------------------------------------------------------------------
(* C30: the orchestrator writes one record for a scene exactly when
   generate_qa_templates returned a list that is not empty, and writes
   nothing for a scene with an empty list; in the record
   generation_metadata.total_questions is the length of qa_pairs, and
   video_info.setting and generation_metadata.setting are the setting's
   name, or 'basic' when no setting is active, as with every setting string
   outside the four distractor settings. *)
C30_RecordWrittenIffQuestionsReturned ==
    /\ pc \notin {"saved", "skipped"} => questions_file = NoValue
    /\ pc = "skipped" => (qa_pairs = <<>> /\ questions_file = NoValue)
    /\ pc = "saved" =>
           LET name == IF setting_str \in SettingType THEN setting_str ELSE "basic"
           IN  /\ questions_file # NoValue
               /\ questions_file.qa_pairs # <<>>
               /\ questions_file.generation_metadata.total_questions
                      = Len(questions_file.qa_pairs)
               /\ Len(qa_pairs) = Len(questions_file.qa_pairs)
               /\ questions_file.video_info.setting = name
               /\ questions_file.generation_metadata.setting = name

\* a record written under a setting string outside the four settings
C30_WitnessUnknownSettingSavedAsBasic ==
    /\ pc = "saved"
    /\ setting_str = "add_three_static"
    /\ questions_file.video_info.setting = "basic"
    /\ questions_file.generation_metadata.total_questions > 0

====
